---- MODULE Spec2Model ----
(***************************************************************************)
(* Model of the indexing and duplicate-detection pipeline of the Pixels    *)
(* photo manager: FileSystemScanner, LibraryIndexer (index_folder and the  *)
(* worker pool of _process_images), the photo store it writes to, and the  *)
(* DuplicateDetectionService that reads the store.                         *)
(*                                                                         *)
(* The storage layer (core/database.py, class PhotoDatabase) is not among  *)
(* the sources; its operations are modelled from the specification         *)
(* (sections 3 and 6) and from the database tests.                         *)
(***************************************************************************)
EXTENDS Integers, Sequences, FiniteSets, TLC

VARIABLES
    fs,           \* the filesystem: path -> entry (absent, file with bytes, directory)
    folders,      \* store: sequence of Folder rows, row i has id i
    photos,       \* store: sequence of Photo rows, row i has id i
    max_workers,  \* LibraryIndexer.max_workers
    idx,          \* the index_folder call in progress or last returned
    pool,         \* the _process_images calls: call id -> executor and task states
    dup,          \* the duplicate-ranking call: its input group and its result
    tags,         \* store: sequence of Tag rows, row i has id i
    photo_tags,   \* store: the join relation, pairs of photo id and tag id
    mgr,          \* the TagManager call or API request last answered
    req           \* the API requests in progress: worker thread -> request

vars == <<fs, folders, photos, max_workers, idx, pool, dup, tags, photo_tags, mgr, req>>

None == "None"

(***************************************************************************)
(* Bounds of the model                                                     *)
(***************************************************************************)
\* longest image_paths list handed to one _process_images call
MaxBatch == 2
\* largest duplicate group ranked by suggest_duplicates_to_keep
MaxGroup == 3
MaxPhotos == 5
MaxLibrary == 4
MaxScans == 2
MaxBytes == 3
\* longest tag name given to the tag manager
MaxName == 2
\* how far outside of the range 0-5 the ratings given go
Excess == 1
\* most Tag rows and most Folder rows ever inserted, the deleted ones included
MaxTags == 2
MaxFolders == 2

(***************************************************************************)
(* The filesystem                                                          *)
(***************************************************************************)
Root == "/lib"
SubDir == "/lib/sub"

\* os.path.join(a, b) for a relative b
join(a, b) == a \o "/" \o b

FileA == join(Root, "a.jpg")
FileB == join(Root, "b.jpg")
FileC == join(SubDir, "c.jpg")
FileT == join(Root, "notes.txt")
ImagePaths == {FileA, FileB, FileC}
Nodes == {Root, SubDir, FileT} \cup ImagePaths

\* the directories and the file names of the model
DirNames == {Root, SubDir, "/nonexistent"}
BaseNames == {"a.jpg", "b.jpg", "c.jpg", "notes.txt", "sub", "image.jpg", "p1.jpg", "p2.jpg", "p3.jpg",
              "p4.jpg", "p5.jpg", "p6.jpg", "p7.jpg"}

\* the names the directories of the model can hold, in the order of the names
NamesOf(path) ==
    IF path = Root THEN <<"a.jpg", "b.jpg", "notes.txt", "sub">>
    ELSE IF path = SubDir THEN <<"c.jpg">>
    ELSE << >>

\* file contents: byte strings
Contents == {<< >>, <<1>>}

Absent == [kind |-> "absent", readable |-> FALSE, bytes |-> << >>]
Dir(r) == [kind |-> "dir", readable |-> r, bytes |-> << >>]
File(b) == [kind |-> "file", readable |-> TRUE, bytes |-> b]
FileOrAbsent == {Absent} \cup {File(b) : b \in Contents}

Lookup(f, p) == IF p \in DOMAIN f THEN f[p] ELSE Absent

\* os.path.exists, os.path.isdir
exists(f, p) == Lookup(f, p).kind # "absent"
isdir(f, p) == Lookup(f, p).kind = "dir"

\* st_mtime and st_ctime of an entry: the clock of the model stands still, every
\* entry was written at time 0
st_mtime(f, p) == 0
st_ctime(f, p) == 0
\* datetime.fromtimestamp(t).isoformat() and time.ctime(t): two texts of a time
isoformat(t) == <<"isoformat", t>>
ctime(t) == <<"ctime", t>>

\* the entries of a directory, in the order of their names
ByName(f, path) == SelectSeq(NamesOf(path), LAMBDA name : exists(f, join(path, name)))

RECURSIVE Orders(_)
\* the orders in which the members of a set can be listed
Orders(S) ==
    IF S = {} THEN {<< >>}
    ELSE UNION {{<<x>> \o rest : rest \in Orders(S \ {x})} : x \in S}

\* os.scandir: the entries of every directory in one of the orders the
\* filesystem can yield them in; the order is arbitrary
Listings(f) ==
    LET Entries(path) == {ByName(f, path)[k] : k \in 1..Len(ByName(f, path))}
    IN  {[path \in DirNames |-> IF path = Root THEN r ELSE IF path = SubDir THEN s ELSE << >>] :
            r \in Orders(Entries(Root)), s \in Orders(Entries(SubDir))}
\* the listing in which every directory yields its entries by name
Sorted(f) == [path \in DirNames |-> ByName(f, path)]

\* a readable root holding a.jpg with bytes a, b.jpg with bytes b and, when s,
\* the subdirectory holding c.jpg with bytes c (None: the file is missing)
Tree(a, b, s, c) ==
    [n \in Nodes |-> CASE n = Root -> Dir(TRUE)
                      [] n = FileA -> a
                      [] n = FileB -> b
                      [] n = SubDir -> IF s THEN Dir(TRUE) ELSE Absent
                      [] n = FileC -> IF s THEN c ELSE Absent
                      [] OTHER -> Absent]

\* the trees the model starts from: the root is missing, a plain file, an
\* unreadable directory, or a readable directory: empty, with one, two or three
\* images, with equal or different bytes, with and without the subdirectory
FsStates ==
    {[n \in Nodes |-> IF n = Root THEN r ELSE Absent] : r \in {Absent, File(<< >>), Dir(FALSE)}}
    \cup
    { Tree(Absent, Absent, FALSE, Absent),
      Tree(Absent, Absent, TRUE, Absent),
      Tree(File(<<1>>), Absent, FALSE, Absent),
      Tree(Absent, Absent, TRUE, File(<<1>>)),
      Tree(File(<<1>>), File(<<1>>), FALSE, Absent),
      Tree(File(<<1>>), File(<< >>), TRUE, Absent),
      Tree(File(<<1>>), File(<<1>>), TRUE, File(<< >>)),
      Tree(File(<<1>>), File(<<1>>), TRUE, File(<<1>>)) }

(***************************************************************************)
(* FileSystemScanner                                                       *)
(***************************************************************************)
image_extensions == {".jpg", ".jpeg", ".png", ".gif", ".bmp", ".tiff", ".webp"}

\* os.path.splitext(name.lower())[1] of the names of the model
splitext(name) ==
    IF name \in {"a.jpg", "b.jpg", "c.jpg"} THEN ".jpg"
    ELSE IF name = "notes.txt" THEN ".txt" ELSE ""

\* mimetypes.guess_type(name)[0] of the names of the model
guess_type(name) ==
    IF name \in {"a.jpg", "b.jpg", "c.jpg"} THEN "image/jpeg"
    ELSE IF name = "notes.txt" THEN "text/plain" ELSE None

\* mime_type and mime_type.startswith('image/')
is_image_mime(mime_type) == mime_type \in {"image/jpeg", "image/png", "image/gif"}

is_supported_image(name) ==
    splitext(name) \in image_extensions \/ is_image_mime(guess_type(name))

EmptyScan == [directories |-> << >>, files |-> << >>]

RECURSIVE scan_directory(_, _, _, _)
RECURSIVE ScanItems(_, _, _, _, _, _)

\* the for loop of scan_directory over os.scandir(path), lines 53-81
ScanItems(f, listing, path, recursive, names, result) ==
    IF names = << >> THEN result
    ELSE
        LET name == Head(names)
            p == join(path, name)
            e == Lookup(f, p)
        IN  IF e.kind = "absent" THEN
                ScanItems(f, listing, path, recursive, Tail(names), result)
            ELSE IF e.kind = "dir" THEN
                LET dir_info == [name |-> name, path |-> p,
                                 timestamp |-> isoformat(st_mtime(f, p))]
                    sub_result == IF recursive THEN scan_directory(f, listing, p, recursive)
                                  ELSE EmptyScan
                    next == [directories |-> Append(result.directories, dir_info)
                                             \o sub_result.directories,
                             files |-> result.files \o sub_result.files]
                IN  ScanItems(f, listing, path, recursive, Tail(names), next)
            ELSE
                LET file_info == [name |-> name, path |-> p, size |-> Len(e.bytes),
                                  extension |-> splitext(name),
                                  timestamp |-> isoformat(st_mtime(f, p)),
                                  is_image |-> is_supported_image(name)]
                    next == [result EXCEPT !.files = Append(@, file_info)]
                IN  ScanItems(f, listing, path, recursive, Tail(names), next)

\* scan_directory: a record of two lists, 'directories' and 'files'; listing
\* is the order in which os.scandir yields the entries of each directory
scan_directory(f, listing, path, recursive) ==
    IF ~exists(f, path) THEN EmptyScan
    ELSE IF ~isdir(f, path) THEN EmptyScan
    ELSE IF ~Lookup(f, path).readable THEN EmptyScan  \* os.scandir raises, caught at line 82
    ELSE IF path \notin DOMAIN listing THEN EmptyScan
    ELSE ScanItems(f, listing, path, recursive, listing[path], EmptyScan)

(***************************************************************************)
(* The photo store (PhotoDatabase), modelled from the specification        *)
(***************************************************************************)
RECURSIVE Ascending(_)
\* the members of a finite set of integers, smallest first
Ascending(S) ==
    IF S = {} THEN << >>
    ELSE LET m == CHOOSE x \in S : \A y \in S : x <= y
         IN  <<m>> \o Ascending(S \ {m})

\* the place of a Folder row that was deleted: row i has id i, the id of a
\* deleted row is not used again
NoFolder == [id |-> 0, path |-> None, is_monitored |-> FALSE, date_scanned |-> 0]
FolderIds(fol) == {i \in 1..Len(fol) : fol[i].id = i}
\* the ids of the Photo rows: a permanently deleted row is gone, its id is not reused
PhotoIds(ph) == {i \in 1..Len(ph) : ph[i].status # "deleted"}

\* getFolderByPath: the Folder row with this path (None is the empty list)
get_folder_by_path(fol, path) ==
    IF \E i \in FolderIds(fol) : fol[i].path = path
    THEN <<fol[CHOOSE i \in FolderIds(fol) : fol[i].path = path]>>
    ELSE << >>

\* getFolder: the Folder row with this id (None is the empty list)
get_folder(fol, folder_id) == IF folder_id \in FolderIds(fol) THEN <<fol[folder_id]>> ELSE << >>

\* deleteFolder: removes the Folder row; False for an unknown id. Whether the
\* Photo rows of the folder are removed with it (cascade) is not said.
delete_folder(fol, ph, folder_id, cascade) ==
    IF folder_id \notin FolderIds(fol) THEN [rows |-> fol, photos |-> ph, ok |-> FALSE]
    ELSE [rows |-> [fol EXCEPT ![folder_id] = NoFolder],
          photos |-> IF cascade
                     THEN [i \in 1..Len(ph) |->
                              IF ph[i].folder_id = folder_id
                              THEN [ph[i] EXCEPT !.status = "deleted"] ELSE ph[i]]
                     ELSE ph,
          ok |-> TRUE]

\* addFolder: "register (or reuse) the folder record; set its is_monitored
\* flag from the monitor argument". Yields the rows and the folder id.
add_folder(fol, path, is_monitored) ==
    LET old == get_folder_by_path(fol, path)
    IN  IF old # << >>
        THEN [rows |-> [fol EXCEPT ![old[1].id].is_monitored = is_monitored],
              id |-> old[1].id]
        ELSE [rows |-> Append(fol, [id |-> Len(fol) + 1, path |-> path,
                                    is_monitored |-> is_monitored,
                                    date_scanned |-> 0]),
              id |-> Len(fol) + 1]

\* updateFolder(id, date_scanned = now): the time stamp of a row is the number
\* of scans that have stamped it, so every stamp is a new value
update_folder(fol, folder_id) ==
    IF folder_id \in FolderIds(fol)
    THEN [fol EXCEPT ![folder_id].date_scanned = @ + 1]
    ELSE fol

\* getPhotosByFolder: the Photo rows of a folder
get_photos_by_folder(ph, folder_id) ==
    LET ids == Ascending({i \in PhotoIds(ph) : ph[i].folder_id = folder_id})
    IN  [k \in 1..Len(ids) |-> ph[ids[k]]]

\* the columns of a Photo row that rank duplicates, and their defaults: rating
\* and is_favorite are 0, the others NULL (None is the empty list)
ScoreColumns == {"width", "height", "date_taken", "camera_make", "camera_model",
                 "iso", "aperture", "exposure_time", "rating", "is_favorite"}
ColumnsOf(metadata) ==
    [c \in ScoreColumns |->
        IF c \in DOMAIN metadata THEN <<metadata[c]>>
        ELSE IF c \in {"rating", "is_favorite"} THEN <<0>> ELSE << >>]

\* getPhotoByPath: the Photo row with this file_path (None is the empty list)
get_photo_by_path(ph, path) ==
    IF \E i \in PhotoIds(ph) : ph[i].file_path = path
    THEN <<ph[CHOOSE i \in PhotoIds(ph) : ph[i].file_path = path]>>
    ELSE << >>

\* getPhoto: the Photo row with this id (None is the empty list)
get_photo(ph, id) == IF id \in PhotoIds(ph) THEN <<ph[id]>> ELSE << >>

\* addPhoto: file_path is unique; a colliding insert is refused (ok is false:
\* the constraint violation), any other insert appends a row and yields its id
add_photo(ph, file_path, folder_id, metadata) ==
    IF get_photo_by_path(ph, file_path) # << >>
    THEN [rows |-> ph, ok |-> FALSE, id |-> 0]
    ELSE [rows |-> Append(ph, [id |-> Len(ph) + 1, file_path |-> file_path,
                               folder_id |-> folder_id,
                               file_hash |-> metadata.file_hash,
                               file_size |-> metadata.size,
                               status |-> "active"] @@ ColumnsOf(metadata)),
          ok |-> TRUE, id |-> Len(ph) + 1]

(***************************************************************************)
(* ContentHasher and MetadataExtractor                                     *)
(***************************************************************************)
\* hashlib.sha256(message).hexdigest(): collision-free on the messages of the model
hexdigest(message) == <<"sha256", message>>

\* f.read(block_size): the next block and the rest of the file
ReadBlock(bytes, block_size) ==
    IF Len(bytes) <= block_size THEN [block |-> bytes, rest |-> << >>]
    ELSE [block |-> SubSeq(bytes, 1, block_size),
          rest |-> SubSeq(bytes, block_size + 1, Len(bytes))]

\* a hasher that is fed the first block only
HashFirstBlock(bytes, block_size, hasher) == hasher \o ReadBlock(bytes, block_size).block

RECURSIVE HashBlocks(_, _, _)
\* for block in iter(lambda: f.read(block_size), b''): hasher.update(block)
HashBlocks(bytes, block_size, hasher) ==
    LET r == ReadBlock(bytes, block_size)
    IN  IF r.block = << >> THEN hasher
        ELSE HashBlocks(r.rest, block_size, hasher \o r.block)

block_size_default == 65536

\* LibraryIndexer._calculate_file_hash of a file that can be opened
calculate_file_hash(bytes, block_size) == hexdigest(HashBlocks(bytes, block_size, << >>))

\* DuplicateDetectionService.calculate_file_hash of a file that can be opened
service_calculate_file_hash(bytes, block_size) ==
    hexdigest(HashBlocks(bytes, block_size, << >>))

\* the number of hexadecimal characters of a digest: 256 bits for SHA-256
hex_length(digest) == IF digest[1] = "sha256" THEN 256 \div 4 ELSE 0

\* img._getexif() under the tag names: an image of more than one byte carries
\* an EXIF block with the make and the model of the camera and no other tag,
\* an image of one byte carries no block
getexif(bytes) ==
    IF Len(bytes) > 1 THEN [Make |-> "make", Model |-> "model"] ELSE << >>

\* PIL.Image.open: a file whose first byte is the magic number 1 is an image,
\* as wide as it has bytes and 1 high; any other file cannot be identified
identify(bytes) ==
    IF bytes # << >> /\ bytes[1] = 1
    THEN <<[format |-> "JPEG", mode |-> "RGB", width |-> Len(bytes), height |-> 1,
            exif |-> getexif(bytes)]>>
    ELSE << >>

\* _extract_exif of a block that holds no other tags than Make and Model:
\* nothing for an empty block, else the block and the fields taken from it
extract_exif(exif) ==
    IF DOMAIN exif = {} THEN << >>
    ELSE [exif |-> exif]
         @@ (IF "Make" \in DOMAIN exif THEN [camera_make |-> exif.Make] ELSE << >>)
         @@ (IF "Model" \in DOMAIN exif THEN [camera_model |-> exif.Model] ELSE << >>)

\* _extract_image_info: the keys it sets in result
extract_image_info(img) ==
    extract_exif(img.exif)
    @@ [format |-> img.format, mode |-> img.mode, width |-> img.width, height |-> img.height]

\* os.path.getsize: the bytes of a file, one block of 4096 bytes for a directory
getsize(f, p) == IF isdir(f, p) THEN 4096 ELSE Len(Lookup(f, p).bytes)

\* os.path.basename of the paths of the model
basename(path) ==
    IF \E d \in DirNames, n \in BaseNames : join(d, n) = path
    THEN CHOOSE n \in BaseNames : \E d \in DirNames : join(d, n) = path
    ELSE path

\* MetadataExtractor.extract_metadata: Image.open raises IsADirectoryError for a
\* directory (caught at line 55) and UnidentifiedImageError for a file that is
\* no image (caught at line 52)
extract_metadata(f, image_path) ==
    IF ~exists(f, image_path) THEN [error |-> "Image does not exist: " \o image_path]
    ELSE LET result == [filename |-> basename(image_path),
                        file_name |-> basename(image_path),
                        path |-> image_path,
                        size |-> getsize(f, image_path),
                        modified_date |-> ctime(st_mtime(f, image_path)),
                        created_date |-> ctime(st_ctime(f, image_path))]
             img == identify(Lookup(f, image_path).bytes)
         IN  IF isdir(f, image_path)
             THEN [error |-> "Error extracting metadata: [Errno 21] Is a directory: '"
                             \o image_path \o "'"] @@ result
             ELSE IF img = << >>
             THEN [error |-> "Cannot identify image file: " \o image_path] @@ result
             ELSE extract_image_info(img[1]) @@ result

(***************************************************************************)
(* The tag tables of the store, modelled from the specification            *)
(***************************************************************************)
\* the place of a Tag row that was deleted: row i has id i, the id of a
\* deleted row is not used again
NoTag == [id |-> 0, name |-> << >>, parent_id |-> << >>]
TagIds(tg) == {i \in 1..Len(tg) : tg[i].id = i}

\* getTagByName: the Tag row with this name (None is the empty list)
get_tag_by_name(tg, name) ==
    IF \E i \in TagIds(tg) : tg[i].name = name
    THEN <<tg[CHOOSE i \in TagIds(tg) : tg[i].name = name]>>
    ELSE << >>

\* getTag: the Tag row with this id
get_tag(tg, tag_id) == IF tag_id \in TagIds(tg) THEN <<tg[tag_id]>> ELSE << >>

\* addTag: "name (... unique)": an insert with a name that a row has is
\* refused by the constraint (raised); any other insert appends a row
add_tag(tg, name, parent_id) ==
    IF get_tag_by_name(tg, name) # << >>
    THEN [rows |-> tg, raised |-> TRUE, id |-> 0]
    ELSE [rows |-> Append(tg, [id |-> Len(tg) + 1, name |-> name, parent_id |-> parent_id]),
          raised |-> FALSE, id |-> Len(tg) + 1]

\* updateTag: sets the name and the parent that are given (None, the empty
\* list, leaves a column as it is); False for an unknown id; a name that
\* another row has is refused by the constraint (raised)
store_update_tag(tg, tag_id, name, parent_id) ==
    IF tag_id \notin TagIds(tg) THEN [rows |-> tg, raised |-> FALSE, ok |-> FALSE]
    ELSE IF name # << >> /\ \E i \in TagIds(tg) \ {tag_id} : tg[i].name = name[1]
    THEN [rows |-> tg, raised |-> TRUE, ok |-> FALSE]
    ELSE [rows |-> [tg EXCEPT ![tag_id].name = IF name # << >> THEN name[1] ELSE @,
                              ![tag_id].parent_id = IF parent_id # << >> THEN parent_id ELSE @],
          raised |-> FALSE, ok |-> TRUE]

\* addTagToPhoto: "photo_id, tag_id unique pair"; False when the photo or the
\* tag does not exist
add_tag_to_photo(pt, ph, tg, photo_id, tag_id) ==
    IF photo_id \in PhotoIds(ph) /\ tag_id \in TagIds(tg)
    THEN [pairs |-> pt \cup {<<photo_id, tag_id>>}, ok |-> TRUE]
    ELSE [pairs |-> pt, ok |-> FALSE]

\* deleteTag: removes the Tag row and its pairs of the join relation; False
\* for an unknown id ("NotFound: an explicit negative result")
store_delete_tag(tg, pt, tag_id) ==
    IF tag_id \notin TagIds(tg) THEN [rows |-> tg, pairs |-> pt, ok |-> FALSE]
    ELSE [rows |-> [tg EXCEPT ![tag_id] = NoTag],
          pairs |-> {pair \in pt : pair[2] # tag_id},
          ok |-> TRUE]

\* removeTagFromPhoto: removes the pair from the join relation; False when
\* the photo does not carry the tag ("NotFound: an explicit negative result")
remove_tag_from_photo(pt, photo_id, tag_id) ==
    IF <<photo_id, tag_id>> \in pt
    THEN [pairs |-> pt \ {<<photo_id, tag_id>>}, ok |-> TRUE]
    ELSE [pairs |-> pt, ok |-> FALSE]

\* updatePhoto: sets the rating and the favorite flag that are given (None,
\* the empty list, leaves a column as it is); False for an unknown id. The
\* data model gives a rating the range 0-5: a store that checks the range
\* (checks) refuses a rating outside of it, a store that does not writes it.
update_photo(ph, photo_id, rating, is_favorite, checks) ==
    IF photo_id \notin PhotoIds(ph) THEN [rows |-> ph, ok |-> FALSE]
    ELSE IF checks /\ rating # << >> /\ rating[1] \notin 0..5 THEN [rows |-> ph, ok |-> FALSE]
    ELSE [rows |-> [ph EXCEPT ![photo_id].rating = IF rating # << >> THEN rating ELSE @,
                              ![photo_id].is_favorite =
                                  IF is_favorite # << >> THEN is_favorite ELSE @],
          ok |-> TRUE]

(***************************************************************************)
(* TagManager: tags                                                        *)
(***************************************************************************)
\* A name is a string, modelled as the list of its characters.
Whitespace == {" "}

RECURSIVE lstrip(_)
lstrip(name) ==
    IF name # << >> /\ Head(name) \in Whitespace THEN lstrip(Tail(name)) ELSE name

RECURSIVE rstrip(_)
rstrip(name) ==
    IF name # << >> /\ name[Len(name)] \in Whitespace
    THEN rstrip(SubSeq(name, 1, Len(name) - 1)) ELSE name

\* str.strip(): without the whitespace at both ends
strip(name) == rstrip(lstrip(name))

\* a lower() that leaves every character as it is
keep_case(name) == name

\* str.lower() on the characters of the model
lower(name) == [i \in 1..Len(name) |-> IF name[i] = "A" THEN "a" ELSE name[i]]

\* lines 74-85: update_tag; name and parent_id are optional (None is the
\* empty list)
update_tag(tg, tag_id, name, parent_id) ==
    LET normal == IF name = << >> THEN << >> ELSE <<lower(strip(name[1]))>>
        r == store_update_tag(tg, tag_id, normal, parent_id)
    IN  IF name # << >> /\ normal[1] = << >> THEN [rows |-> tg, ret |-> FALSE]
        ELSE IF r.raised THEN [rows |-> tg, ret |-> FALSE]
        ELSE [rows |-> r.rows, ret |-> r.ok]

(***************************************************************************)
(* MetadataExtractor._extract_gps_info                                     *)
(***************************************************************************)
\* A GPS block is a dict from EXIF GPS tag numbers to values: 1 and 3 are the
\* references of latitude and longitude, 2 and 4 the coordinates (tuples of
\* rationals, a rational being a tuple of numerator and denominator), 5 and 6
\* the reference and the rational of the altitude.
GpsTags == 1..6

\* the result of a division: the quotient as a fraction, or ZeroDivisionError
divide(rational) ==
    IF Len(rational) < 2 THEN [raised |-> TRUE, num |-> 0, den |-> 1]   \* IndexError
    ELSE IF rational[2] = 0 THEN [raised |-> TRUE, num |-> 0, den |-> 1]
    ELSE [raised |-> FALSE, num |-> rational[1], den |-> rational[2]]

\* lines 224-229, _convert_to_degrees: d + m / 60 + s / 3600 of the first
\* three components, as a fraction; raises when a component is missing or a
\* denominator is 0
convert_to_degrees(value) ==
    IF Len(value) < 3 THEN [raised |-> TRUE, num |-> 0, den |-> 1]      \* IndexError
    ELSE LET d == divide(value[1])
             m == divide(value[2])
             sec == divide(value[3])
         IN  IF d.raised \/ m.raised \/ sec.raised
             THEN [raised |-> TRUE, num |-> 0, den |-> 1]
             ELSE [raised |-> FALSE,
                   num |-> 3600 * d.num * m.den * sec.den + 60 * m.num * d.den * sec.den
                           + sec.num * d.den * m.den,
                   den |-> 3600 * d.den * m.den * sec.den]

\* the value with its sign turned when the reference asks for it
signed(q, negative) == [num |-> IF negative THEN 0 - q.num ELSE q.num, den |-> q.den]

\* lines 190-197 and 200-207: one coordinate of the block. Nothing is added
\* when a tag of the pair is missing or the coordinate is an empty tuple.
coordinate(gps_info, ref_tag, tag, negative_ref, key) ==
    IF ~(ref_tag \in DOMAIN gps_info /\ tag \in DOMAIN gps_info) \/ gps_info[tag] = << >>
    THEN [raised |-> FALSE, out |-> << >>]
    ELSE LET q == convert_to_degrees(gps_info[tag])
         IN  IF q.raised THEN [raised |-> TRUE, out |-> << >>]
             ELSE [raised |-> FALSE,
                   out |-> [k \in {key} |-> signed(q, gps_info[ref_tag] = negative_ref)]]

\* lines 210-217: the altitude of the block
altitude_of(gps_info) ==
    IF ~(5 \in DOMAIN gps_info /\ 6 \in DOMAIN gps_info) \/ gps_info[6] = << >>
    THEN [raised |-> FALSE, out |-> << >>]
    ELSE LET q == divide(gps_info[6])
         IN  IF q.raised THEN [raised |-> TRUE, out |-> << >>]
             ELSE [raised |-> FALSE,
                   out |-> [k \in {"altitude"} |-> signed(q, gps_info[5] = 1)]]

\* lines 177-222: the three parts run in one try block; an exception ends the
\* block and the result built so far is returned
extract_gps_info(gps_info) ==
    LET lat == coordinate(gps_info, 1, 2, "S", "latitude")
        lon == coordinate(gps_info, 3, 4, "W", "longitude")
        alt == altitude_of(gps_info)
    IN  IF lat.raised THEN << >>
        ELSE IF lon.raised THEN lat.out
        ELSE IF alt.raised THEN lat.out @@ lon.out
        ELSE lat.out @@ lon.out @@ alt.out

(***************************************************************************)
(* LibraryIndexer: state of the calls                                      *)
(***************************************************************************)
\* the threads that run the endpoints of the API and the calls of the tag
\* manager, and the threads before any call. A call that makes more than one
\* store call is a step for each: nothing locks the store between them, so
\* the other thread makes its store calls in between.
Threads == {1, 2}
NoRequest == [pc |-> "idle"]
NoRequests == [t \in Threads |-> NoRequest]

\* the record of a request that was answered: the endpoint and the status of
\* the response
Answered(op, status) == [op |-> op, ret |-> status]

\* the thread is free again
Idle(t) == [req EXCEPT ![t] = NoRequest]

\* the TagManager and the API before any of their calls
NoCall == [op |-> "none", ret |-> << >>, changed |-> FALSE, named |-> << >>, blank |-> FALSE]

\* values the tests give to LibraryIndexer.max_workers
WorkerCounts == {1, 2}

\* folder_path arguments of index_folder
IndexPaths == {Root}

\* image_paths arguments of _process_images: lists of at most MaxBatch paths
BatchLists == UNION {[1..n -> ImagePaths] : n \in 0..MaxBatch}

\* file_path values of the Photo rows
PathsOf(ph) == {ph[i].file_path : i \in PhotoIds(ph)}

IdxIdle == [pc |-> "idle", path |-> None, recursive |-> FALSE, monitor |-> FALSE,
            scan |-> EmptyScan, folder_id |-> 0, folders_added |-> 0,
            photos_added |-> 0, ret |-> << >>, again |-> FALSE,
            before |-> << >>, folders_before |-> << >>,
            monitored |-> << >>, i |-> 1, folders_updated |-> 0,
            gps_info |-> << >>]

PoolIdle == [pc |-> "idle", paths |-> << >>, folder_id |-> 0,
             task |-> << >>, ret |-> 0, before |-> << >>]

\* the statistics of no group, and the service before any of its calls
NoStatistics == [total_groups |-> 0, total_duplicates |-> 0,
                 wasted_space_bytes |-> 0, largest_group_size |-> 0]
NoDup == [pc |-> "idle", group |-> [file_hash |-> << >>, photos |-> << >>],
          ids |-> << >>, groups |-> << >>, stats |-> NoStatistics,
          args |-> << >>, calls |-> << >>, ret |-> FALSE, g |-> 1, k |-> 1,
          db_results |-> << >>]

IdxReturned == idx.pc \in {"idle", "DONE", "FAILED", "REFRESHED", "RAISED", "SCANNED",
                          "EXTRACTED", "HASHED", "GPS"}
PoolActive(c) == pool[c].pc \in {"running", "unwinding"}
\* no call of the client is in progress
ClientFree == IdxReturned /\ \A c \in DOMAIN pool : ~PoolActive(c)

(***************************************************************************)
(* LibraryIndexer.index_folder                                             *)
(***************************************************************************)
\* scan_results.items(): the two entries of the scanner's record, in order
items(scan_results) ==
    << <<"directories", scan_results.directories>>, <<"files", scan_results.files>> >>

RECURSIVE IndexLoop(_)
\* the for loop of lines 57-63 over the scanner's record. A non-empty list holds
\* dir_info or file_info records, so os.path.join(dir_path, fname) of line 62
\* raises TypeError before _process_images is reached; an empty list is skipped.
IndexLoop(its) ==
    IF its = << >> THEN "ok"
    ELSE LET image_files == Head(its)[2]
         IN  IF image_files = << >> THEN IndexLoop(Tail(its))
             ELSE "TypeError"

\* what index_folder returns: line 66 after an exception, line 69 otherwise
index_folder_return(raised, folders_added, photos_added) ==
    IF raised
    THEN [folders_added |-> 0, photos_added |-> 0, elapsed |-> "0.0"]
    ELSE [folders_added |-> folders_added, photos_added |-> photos_added,
          elapsed |-> "elapsed"]

\* scanner.scan_directory(path, recursive) is called and returns; os.scandir
\* yields the entries in an order of its own
ScanDirectory(path, recursive) ==
    /\ ClientFree
    /\ idx.pc = "idle"
    /\ \E listing \in Listings(fs) :
        idx' = [IdxIdle EXCEPT !.pc = "SCANNED", !.path = path, !.recursive = recursive,
                               !.scan = scan_directory(fs, listing, path, recursive)]
    /\ UNCHANGED <<req, tags, photo_tags, mgr, fs, folders, photos, max_workers, pool, dup>>

\* metadata_extractor.extract_metadata(image_path) is called and returns
ExtractMetadata(image_path) ==
    /\ ClientFree
    /\ idx.pc = "idle"
    /\ idx' = [IdxIdle EXCEPT !.pc = "EXTRACTED", !.path = image_path,
                              !.ret = extract_metadata(fs, image_path)]
    /\ UNCHANGED <<req, tags, photo_tags, mgr, fs, folders, photos, max_workers, pool, dup>>

(***************************************************************************)
(* TagManager and the API: ratings                                         *)
(***************************************************************************)
max(a, b) == IF a >= b THEN a ELSE b
min(a, b) == IF a <= b THEN a ELSE b

\* tag_manager.py line 352: rating = max(0, min(5, rating))
clamp(rating) == max(0, min(5, rating))

\* lines 350-357: set_photo_rating
set_photo_rating(ph, photo_id, rating, checks) ==
    LET r == update_photo(ph, photo_id, <<clamp(rating)>>, << >>, checks)
    IN  [rows |-> r.rows, ret |-> r.ok]

\* lines 420-424: set_photo_favorite
set_photo_favorite(ph, photo_id, favorite, checks) ==
    LET r == update_photo(ph, photo_id, << >>, <<IF favorite THEN 1 ELSE 0>>, checks)
    IN  [rows |-> r.rows, ret |-> r.ok]

\* the record of a call that sets a rating: the photos and the rating it was
\* given, and what it returned
Rated(op, photo_ids, rating, ret) ==
    [op |-> op, photo_ids |-> photo_ids, rating |-> rating, ret |-> ret]

\* tag_manager.set_photo_rating(photo_id, rating) is called and returns
SetPhotoRating(photo_id, rating, checks) ==
    /\ LET r == set_photo_rating(photos, photo_id, rating, checks)
       IN  /\ photos' = r.rows
           /\ mgr' = Rated("set_photo_rating", <<photo_id>>, <<rating>>, r.ret)
    /\ UNCHANGED <<req, fs, folders, max_workers, idx, pool, dup, tags, photo_tags>>

\* tag_manager.set_photos_rating(photo_ids, rating) is called. Lines 370-373:
\* count is 0 and the rating is clamped; without a photo the loop is skipped
\* and line 378 returns 0
SetPhotosRating(t, photo_ids, rating, checks) ==
    /\ req[t].pc = "idle"
    /\ IF photo_ids = << >>
       THEN /\ mgr' = Rated("set_photos_rating", photo_ids, <<rating>>, 0)
            /\ req' = req
       ELSE /\ req' = [req EXCEPT ![t] = [pc |-> "set_photos_rating",
                                         photo_ids |-> photo_ids, given |-> rating,
                                         rating |-> clamp(rating), checks |-> checks,
                                         k |-> 1, count |-> 0]]
            /\ mgr' = mgr
    /\ UNCHANGED <<fs, folders, photos, max_workers, idx, pool, dup, tags, photo_tags>>

\* lines 375-377: one pass of the loop, db.update_photo for the next photo,
\* counted when it returns True; line 378: after the last photo the call
\* returns count
SetPhotosRatingNext(t) ==
    /\ req[t].pc = "set_photos_rating"
    /\ LET call == req[t]
           r == update_photo(photos, call.photo_ids[call.k], <<call.rating>>, << >>,
                             call.checks)
           count == call.count + (IF r.ok THEN 1 ELSE 0)
       IN  /\ photos' = r.rows
           /\ IF call.k = Len(call.photo_ids)
              THEN /\ mgr' = Rated("set_photos_rating", call.photo_ids, <<call.given>>, count)
                   /\ req' = Idle(t)
              ELSE /\ req' = [req EXCEPT ![t].k = call.k + 1, ![t].count = count]
                   /\ mgr' = mgr
    /\ UNCHANGED <<fs, folders, max_workers, idx, pool, dup, tags, photo_tags>>

\* tag_manager.toggle_photo_favorite(photo_id) is called. Lines 395-397:
\* db.get_photo, and None (the empty list) without the photo; line 400: the
\* new status is the negation of the flag that was read
TogglePhotoFavorite(t, photo_id) ==
    /\ req[t].pc = "idle"
    /\ LET photo == get_photo(photos, photo_id)
       IN  IF photo = << >>
           THEN /\ mgr' = Rated("toggle_photo_favorite", <<photo_id>>, << >>, << >>)
                /\ req' = req
           ELSE /\ req' = [req EXCEPT ![t] =
                              [pc |-> "toggle_photo_favorite", photo_id |-> photo_id,
                               new_status |-> \/ photo[1].is_favorite = << >>
                                              \/ photo[1].is_favorite[1] = 0]]
                /\ mgr' = mgr
    /\ UNCHANGED <<fs, folders, photos, max_workers, idx, pool, dup, tags, photo_tags>>

\* lines 402-405: db.update_photo writes the new status; the call returns it,
\* or None when the store returns False
TogglePhotoFavoriteUpdate(t) ==
    /\ req[t].pc = "toggle_photo_favorite"
    /\ LET call == req[t]
           r == update_photo(photos, call.photo_id, << >>,
                             <<IF call.new_status THEN 1 ELSE 0>>, TRUE)
       IN  /\ photos' = r.rows
           /\ mgr' = Rated("toggle_photo_favorite", <<call.photo_id>>, << >>,
                           IF r.ok THEN <<call.new_status>> ELSE << >>)
    /\ req' = Idle(t)
    /\ UNCHANGED <<fs, folders, max_workers, idx, pool, dup, tags, photo_tags>>

\* tag_manager.set_photo_favorite(photo_id, favorite) is called and returns
SetPhotoFavorite(photo_id, favorite, checks) ==
    /\ LET r == set_photo_favorite(photos, photo_id, favorite, checks)
       IN  /\ photos' = r.rows
           /\ mgr' = Rated("set_photo_favorite", <<photo_id>>, << >>, r.ret)
    /\ UNCHANGED <<req, fs, folders, max_workers, idx, pool, dup, tags, photo_tags>>

\* tag_manager.set_photos_favorite(photo_ids, favorite) is called. Line 437:
\* count is 0; without a photo the loop is skipped and line 442 returns 0
SetPhotosFavorite(t, photo_ids, favorite) ==
    /\ req[t].pc = "idle"
    /\ IF photo_ids = << >>
       THEN /\ mgr' = Rated("set_photos_favorite", photo_ids, << >>, 0)
            /\ req' = req
       ELSE /\ req' = [req EXCEPT ![t] = [pc |-> "set_photos_favorite",
                                         photo_ids |-> photo_ids, favorite |-> favorite,
                                         k |-> 1, count |-> 0]]
            /\ mgr' = mgr
    /\ UNCHANGED <<fs, folders, photos, max_workers, idx, pool, dup, tags, photo_tags>>

\* lines 439-441: one pass of the loop, db.update_photo for the next photo,
\* counted when it returns True; line 442: after the last photo the call
\* returns count
SetPhotosFavoriteNext(t) ==
    /\ req[t].pc = "set_photos_favorite"
    /\ LET call == req[t]
           r == update_photo(photos, call.photo_ids[call.k], << >>,
                             <<IF call.favorite THEN 1 ELSE 0>>, TRUE)
           count == call.count + (IF r.ok THEN 1 ELSE 0)
       IN  /\ photos' = r.rows
           /\ IF call.k = Len(call.photo_ids)
              THEN /\ mgr' = Rated("set_photos_favorite", call.photo_ids, << >>, count)
                   /\ req' = Idle(t)
              ELSE /\ req' = [req EXCEPT ![t].k = call.k + 1, ![t].count = count]
                   /\ mgr' = mgr
    /\ UNCHANGED <<fs, folders, max_workers, idx, pool, dup, tags, photo_tags>>

\* a name of blanks only: empty after trimming
Blank(name) == \A i \in 1..Len(name) : name[i] = " "

\* the record of a call of the tag manager: what it returned, whether it
\* changed the Tag rows, the tag that had the normal form of the name it was
\* given, and whether that name was blank (name is None, the empty list, for
\* a call without one)
Called(op, name, ret, rows) ==
    [op |-> op, ret |-> ret, changed |-> rows # tags,
     named |-> IF name = << >> THEN << >> ELSE get_tag_by_name(tags, lower(strip(name[1]))),
     blank |-> name # << >> /\ Blank(name[1])]

\* the number of calls that are about to insert a Tag row
Inserting == Cardinality({t \in Threads : req[t].pc \in {"create_tag_add", "tag_by_name_add"}})

\* create_tag runs on thread t for the client (api is FALSE) or for the
\* endpoint POST /api/tags. Lines 45-47: the name is stripped and lowercased,
\* and None is returned for an empty one before any store call; lines 50-52:
\* db.get_tag_by_name, and the tag that has the name is returned. The client
\* has the record of the call. The endpoint (api.py lines 569-575) answers
\* None with 500; a tag it hands to db.get_tag in the place of an id, which
\* finds no row whatever the rows are, and line 574 raises TypeError: 500
CreateTagLookup(t, api, name, parent_id) ==
    /\ req[t].pc = "idle"
    /\ LET normal == lower(strip(name))
           existing_tag == get_tag_by_name(tags, normal)
       IN  IF normal = << >>
           THEN /\ mgr' = IF api THEN Answered("api_create_tag", 500)
                          ELSE Called("create_tag", <<name>>, << >>, tags)
                /\ req' = req
           ELSE IF existing_tag # << >>
           THEN /\ mgr' = IF api THEN Answered("api_create_tag", 500)
                          ELSE Called("create_tag", <<name>>, existing_tag, tags)
                /\ req' = req
           ELSE /\ Len(tags) + Inserting < MaxTags
                /\ req' = [req EXCEPT ![t] = [pc |-> "create_tag_add", api |-> api,
                                             name |-> normal, parent_id |-> parent_id]]
                /\ mgr' = mgr
    /\ UNCHANGED <<fs, folders, photos, max_workers, idx, pool, dup, tags, photo_tags>>

\* tag_manager.create_tag(name, parent_id) is called
CreateTag(t, name, parent_id) == CreateTagLookup(t, FALSE, name, parent_id)

\* line 55: db.add_tag; when the store refuses the row the exception is caught
\* (lines 59-61) and create_tag returns None
CreateTagAdd(t) ==
    /\ req[t].pc = "create_tag_add"
    /\ LET call == req[t]
           r == add_tag(tags, call.name, call.parent_id)
       IN  IF r.raised
           THEN /\ tags' = tags
                /\ mgr' = IF call.api THEN Answered("api_create_tag", 500)
                          ELSE [op |-> "create_tag", ret |-> << >>, changed |-> FALSE,
                                named |-> << >>, blank |-> FALSE]
                /\ req' = Idle(t)
           ELSE /\ tags' = r.rows
                /\ mgr' = mgr
                /\ req' = [req EXCEPT ![t] = [pc |-> "create_tag_get", api |-> call.api,
                                             tag_id |-> r.id]]
    /\ UNCHANGED <<fs, folders, photos, max_workers, idx, pool, dup, photo_tags>>

\* lines 56-57: db.get_tag reads the row that was inserted, and create_tag
\* returns it: None when the row is there no more
CreateTagGet(t) ==
    /\ req[t].pc = "create_tag_get"
    /\ mgr' = IF req[t].api THEN Answered("api_create_tag", 500)
              ELSE [op |-> "create_tag", ret |-> get_tag(tags, req[t].tag_id),
                    changed |-> TRUE, named |-> << >>, blank |-> FALSE]
    /\ req' = Idle(t)
    /\ UNCHANGED <<fs, folders, photos, max_workers, idx, pool, dup, tags, photo_tags>>

\* tag_manager.update_tag(tag_id, name, parent_id) is called and returns
UpdateTag(tag_id, name, parent_id) ==
    /\ LET r == update_tag(tags, tag_id, name, parent_id)
       IN  /\ tags' = r.rows
           /\ mgr' = Called("update_tag", name, <<r.ret>>, r.rows)
    /\ UNCHANGED <<req, fs, folders, photos, max_workers, idx, pool, dup, photo_tags>>

\* tag_manager.add_tag_by_name_to_photo(photo_id, tag_name) is called. Lines
\* 211-213: the name is stripped and lowercased, False for an empty one; line
\* 216: db.get_tag_by_name
AddTagByNameToPhoto(t, photo_id, tag_name) ==
    /\ req[t].pc = "idle"
    /\ LET normal == lower(strip(tag_name))
           tag == get_tag_by_name(tags, normal)
       IN  /\ (normal # << >> /\ tag = << >>) => Len(tags) + Inserting < MaxTags
           /\ IF normal = << >>
              THEN /\ mgr' = Called("add_tag_by_name_to_photo", <<tag_name>>, <<FALSE>>, tags)
                   /\ req' = req
              ELSE /\ req' = [req EXCEPT ![t] =
                                 [pc |-> IF tag = << >> THEN "tag_by_name_add"
                                         ELSE "tag_by_name_link",
                                  photo_id |-> photo_id, name |-> normal,
                                  tag_id |-> IF tag = << >> THEN 0 ELSE tag[1].id,
                                  named |-> tag, changed |-> FALSE]]
                   /\ mgr' = mgr
    /\ UNCHANGED <<fs, folders, photos, max_workers, idx, pool, dup, tags, photo_tags>>

\* lines 217-218: no tag has the name, db.add_tag; when the store refuses the
\* row the exception is caught (lines 226-228) and the call returns False
AddTagByNameAdd(t) ==
    /\ req[t].pc = "tag_by_name_add"
    /\ LET call == req[t]
           r == add_tag(tags, call.name, << >>)
       IN  IF r.raised
           THEN /\ tags' = tags
                /\ mgr' = [op |-> "add_tag_by_name_to_photo", ret |-> <<FALSE>>,
                           changed |-> FALSE, named |-> << >>, blank |-> FALSE]
                /\ req' = Idle(t)
           ELSE /\ tags' = r.rows
                /\ mgr' = mgr
                /\ req' = [req EXCEPT ![t].pc = "tag_by_name_link", ![t].tag_id = r.id,
                                      ![t].changed = TRUE]
    /\ UNCHANGED <<fs, folders, photos, max_workers, idx, pool, dup, photo_tags>>

\* line 225: db.add_tag_to_photo with the id that was found or inserted; the
\* call returns what the store returns
AddTagByNameLink(t) ==
    /\ req[t].pc = "tag_by_name_link"
    /\ LET call == req[t]
           a == add_tag_to_photo(photo_tags, photos, tags, call.photo_id, call.tag_id)
       IN  /\ photo_tags' = a.pairs
           /\ mgr' = [op |-> "add_tag_by_name_to_photo", ret |-> <<a.ok>>,
                      changed |-> call.changed, named |-> call.named, blank |-> FALSE]
    /\ req' = Idle(t)
    /\ UNCHANGED <<fs, folders, photos, max_workers, idx, pool, dup, tags>>

\* tag_manager.delete_tag(tag_id) is called and returns what the store's
\* delete_tag returns: line 98
DeleteTag(tag_id) ==
    /\ LET r == store_delete_tag(tags, photo_tags, tag_id)
       IN  /\ tags' = r.rows
           /\ photo_tags' = r.pairs
           /\ mgr' = Called("delete_tag", << >>, <<r.ok>>, r.rows)
    /\ UNCHANGED <<req, fs, folders, photos, max_workers, idx, pool, dup>>

\* tag_manager.add_tag_to_photo(photo_id, tag_id) is called and returns what
\* the store's add_tag_to_photo returns: line 151
AddTagToPhoto(photo_id, tag_id) ==
    /\ LET r == add_tag_to_photo(photo_tags, photos, tags, photo_id, tag_id)
       IN  /\ photo_tags' = r.pairs
           /\ mgr' = Called("add_tag_to_photo", << >>, <<r.ok>>, tags)
    /\ UNCHANGED <<req, fs, folders, photos, max_workers, idx, pool, dup, tags>>

\* tag_manager.add_tag_to_photos(photo_ids, tag_id) is called. Line 167: count
\* is 0; without a photo the loop is skipped and line 172 returns 0
AddTagToPhotos(t, photo_ids, tag_id) ==
    /\ req[t].pc = "idle"
    /\ IF photo_ids = << >>
       THEN /\ mgr' = Called("add_tag_to_photos", << >>, <<0>>, tags)
            /\ req' = req
       ELSE /\ req' = [req EXCEPT ![t] = [pc |-> "add_tag_to_photos",
                                         photo_ids |-> photo_ids, tag_id |-> tag_id,
                                         k |-> 1, count |-> 0]]
            /\ mgr' = mgr
    /\ UNCHANGED <<fs, folders, photos, max_workers, idx, pool, dup, tags, photo_tags>>

\* lines 169-171: one pass of the loop, db.add_tag_to_photo for the next
\* photo, counted when it returns True; line 172: after the last photo the
\* call returns count
AddTagToPhotosNext(t) ==
    /\ req[t].pc = "add_tag_to_photos"
    /\ LET call == req[t]
           a == add_tag_to_photo(photo_tags, photos, tags, call.photo_ids[call.k],
                                 call.tag_id)
           count == call.count + (IF a.ok THEN 1 ELSE 0)
       IN  /\ photo_tags' = a.pairs
           /\ IF call.k = Len(call.photo_ids)
              THEN /\ mgr' = Called("add_tag_to_photos", << >>, <<count>>, tags)
                   /\ req' = Idle(t)
              ELSE /\ req' = [req EXCEPT ![t].k = call.k + 1, ![t].count = count]
                   /\ mgr' = mgr
    /\ UNCHANGED <<fs, folders, photos, max_workers, idx, pool, dup, tags>>

\* tag_manager.add_tags_to_photo(photo_id, tag_ids) is called. Line 188:
\* count is 0; without a tag the loop is skipped and line 193 returns 0
AddTagsToPhoto(t, photo_id, tag_ids) ==
    /\ req[t].pc = "idle"
    /\ IF tag_ids = << >>
       THEN /\ mgr' = Called("add_tags_to_photo", << >>, <<0>>, tags)
            /\ req' = req
       ELSE /\ req' = [req EXCEPT ![t] = [pc |-> "add_tags_to_photo",
                                         photo_id |-> photo_id, tag_ids |-> tag_ids,
                                         k |-> 1, count |-> 0]]
            /\ mgr' = mgr
    /\ UNCHANGED <<fs, folders, photos, max_workers, idx, pool, dup, tags, photo_tags>>

\* lines 190-192: one pass of the loop, db.add_tag_to_photo for the next tag,
\* counted when it returns True; line 193: after the last tag the call
\* returns count
AddTagsToPhotoNext(t) ==
    /\ req[t].pc = "add_tags_to_photo"
    /\ LET call == req[t]
           a == add_tag_to_photo(photo_tags, photos, tags, call.photo_id,
                                 call.tag_ids[call.k])
           count == call.count + (IF a.ok THEN 1 ELSE 0)
       IN  /\ photo_tags' = a.pairs
           /\ IF call.k = Len(call.tag_ids)
              THEN /\ mgr' = Called("add_tags_to_photo", << >>, <<count>>, tags)
                   /\ req' = Idle(t)
              ELSE /\ req' = [req EXCEPT ![t].k = call.k + 1, ![t].count = count]
                   /\ mgr' = mgr
    /\ UNCHANGED <<fs, folders, photos, max_workers, idx, pool, dup, tags>>

\* tag_manager.remove_tag_from_photo(photo_id, tag_id) is called and returns
\* what the store's remove_tag_from_photo returns: line 242
RemoveTagFromPhoto(photo_id, tag_id) ==
    /\ LET r == remove_tag_from_photo(photo_tags, photo_id, tag_id)
       IN  /\ photo_tags' = r.pairs
           /\ mgr' = Called("remove_tag_from_photo", << >>, <<r.ok>>, tags)
    /\ UNCHANGED <<req, fs, folders, photos, max_workers, idx, pool, dup, tags>>

\* tag_manager.remove_tag_from_photos(photo_ids, tag_id) is called. Line 258:
\* count is 0; without a photo the loop is skipped and line 263 returns 0
RemoveTagFromPhotos(t, photo_ids, tag_id) ==
    /\ req[t].pc = "idle"
    /\ IF photo_ids = << >>
       THEN /\ mgr' = Called("remove_tag_from_photos", << >>, <<0>>, tags)
            /\ req' = req
       ELSE /\ req' = [req EXCEPT ![t] = [pc |-> "remove_tag_from_photos",
                                         photo_ids |-> photo_ids, tag_id |-> tag_id,
                                         k |-> 1, count |-> 0]]
            /\ mgr' = mgr
    /\ UNCHANGED <<fs, folders, photos, max_workers, idx, pool, dup, tags, photo_tags>>

\* lines 260-262: one pass of the loop, db.remove_tag_from_photo for the next
\* photo, counted when it returns True; line 263: after the last photo the
\* call returns count
RemoveTagFromPhotosNext(t) ==
    /\ req[t].pc = "remove_tag_from_photos"
    /\ LET call == req[t]
           a == remove_tag_from_photo(photo_tags, call.photo_ids[call.k], call.tag_id)
           count == call.count + (IF a.ok THEN 1 ELSE 0)
       IN  /\ photo_tags' = a.pairs
           /\ IF call.k = Len(call.photo_ids)
              THEN /\ mgr' = Called("remove_tag_from_photos", << >>, <<count>>, tags)
                   /\ req' = Idle(t)
              ELSE /\ req' = [req EXCEPT ![t].k = call.k + 1, ![t].count = count]
                   /\ mgr' = mgr
    /\ UNCHANGED <<fs, folders, photos, max_workers, idx, pool, dup, tags>>

\* metadata_extractor._extract_gps_info(gps_info) is called and returns
ExtractGpsInfo(gps_info) ==
    /\ ClientFree
    /\ idx.pc = "idle"
    /\ idx' = [IdxIdle EXCEPT !.pc = "GPS", !.gps_info = gps_info,
                              !.ret = extract_gps_info(gps_info)]
    /\ UNCHANGED <<req, tags, photo_tags, mgr, fs, folders, photos, max_workers, pool, dup>>

\* _calculate_file_hash (of the indexer) or calculate_file_hash (of the service)
\* is called on a file that can be opened, and returns
CalculateFileHash(service, file_path, block_size) ==
    /\ ClientFree
    /\ idx.pc \in {"idle", "HASHED"}
    /\ Lookup(fs, file_path).kind = "file"
    /\ LET bytes == Lookup(fs, file_path).bytes
           digest == IF service THEN service_calculate_file_hash(bytes, block_size)
                     ELSE calculate_file_hash(bytes, block_size)
       IN  idx' = [IdxIdle EXCEPT !.pc = "HASHED", !.path = file_path,
                                 !.ret = [digest |-> digest],
                                 !.before = IF idx.pc = "HASHED"
                                            THEN <<[path |-> idx.path,
                                                    digest |-> idx.ret.digest]>>
                                            ELSE << >>]
    /\ UNCHANGED <<req, tags, photo_tags, mgr, fs, folders, photos, max_workers, pool, dup>>

\* the client sets indexer.max_workers
SetMaxWorkers(w) ==
    /\ ClientFree
    /\ w # max_workers
    /\ max_workers' = w
    /\ UNCHANGED <<req, tags, photo_tags, mgr, fs, folders, photos, idx, pool, dup>>

\* index_folder(folder_path, recursive, monitor) is called: lines 48-50
IndexFolderCall(folder_path, recursive, monitor) ==
    /\ ClientFree
    /\ idx' = [IdxIdle EXCEPT !.pc = "scan", !.path = folder_path,
                              !.recursive = recursive, !.monitor = monitor,
                              !.again = (get_folder_by_path(folders, folder_path) # << >>),
                              !.before = photos, !.folders_before = folders]
    /\ pool' = [c \in DOMAIN pool |-> PoolIdle]
    /\ dup' = NoDup
    /\ UNCHANGED <<req, tags, photo_tags, mgr, fs, folders, photos, max_workers>>

\* line 52: scan_directory never raises
IndexFolderScan ==
    /\ idx.pc = "scan"
    /\ \E listing \in Listings(fs) :
        idx' = [idx EXCEPT !.pc = "register",
                           !.scan = scan_directory(fs, listing, idx.path, idx.recursive)]
    /\ UNCHANGED <<req, tags, photo_tags, mgr, fs, folders, photos, max_workers, pool, dup>>

\* lines 53-55: the root folder is registered whatever the scan found
IndexFolderRegister ==
    /\ idx.pc = "register"
    /\ LET r == add_folder(folders, idx.path, idx.monitor)
       IN  /\ folders' = r.rows
           /\ idx' = [idx EXCEPT !.pc = "loop", !.folder_id = r.id,
                                 !.folders_added = IF r.id # 0 THEN @ + 1 ELSE @]
    /\ UNCHANGED <<req, tags, photo_tags, mgr, fs, photos, max_workers, pool, dup>>

\* line 53: the store raises in db.add_folder (a lock, a full disk); lines
\* 64-66: the exception is caught and the call returns (0, 0, 0.0)
IndexFolderRegisterRaises ==
    /\ idx.pc = "register"
    /\ idx' = [idx EXCEPT !.pc = "FAILED", !.scan = EmptyScan,
                          !.ret = index_folder_return(TRUE, idx.folders_added,
                                                      idx.photos_added)]
    /\ UNCHANGED <<req, tags, photo_tags, mgr, fs, folders, photos, max_workers, pool, dup>>

\* lines 57-69: the loop and the return
IndexFolderLoop ==
    /\ idx.pc = "loop"
    /\ LET raised == IndexLoop(items(idx.scan)) = "TypeError"
       IN  idx' = [idx EXCEPT !.pc = IF raised THEN "FAILED" ELSE "DONE",
                              !.scan = EmptyScan,
                              !.ret = index_folder_return(raised, idx.folders_added,
                                                          idx.photos_added)]
    /\ UNCHANGED <<req, tags, photo_tags, mgr, fs, folders, photos, max_workers, pool, dup>>

(***************************************************************************)
(* LibraryIndexer.refresh_index                                            *)
(***************************************************************************)
\* a query that returns every folder
get_all_folders(fol) == fol

\* lines 166-170: SELECT * FROM folders WHERE is_monitored = 1
get_monitored_folders(fol) ==
    LET ids == Ascending({i \in FolderIds(fol) : fol[i].is_monitored})
    IN  [k \in 1..Len(ids) |-> fol[ids[k]]]

RECURSIVE RefreshLoop(_, _)
\* the for loop of lines 103-110 over the scanner's record. A non-empty list
\* holds dir_info or file_info records, so os.path.join(dir_path, filename) of
\* line 104 raises TypeError; for an empty list current_paths and new_files
\* are empty and _process_images is not called.
RefreshLoop(its, existing_paths) ==
    IF its = << >> THEN "ok"
    ELSE LET image_files == Head(its)[2]
         IN  IF image_files = << >> THEN RefreshLoop(Tail(its), existing_paths)
             ELSE "TypeError"

\* the time stamps refresh_index can still give: they are capped at MaxScans
CanStamp == \A i \in FolderIds(folders) : folders[i].date_scanned < MaxScans

\* refresh_index() is called: lines 78-83
RefreshCall ==
    /\ ClientFree
    /\ CanStamp
    /\ idx' = [IdxIdle EXCEPT !.pc = "refresh",
                              !.monitored = get_monitored_folders(folders),
                              !.before = photos, !.folders_before = folders]
    /\ pool' = [c \in DOMAIN pool |-> PoolIdle]
    /\ dup' = NoDup
    /\ UNCHANGED <<req, tags, photo_tags, mgr, fs, folders, photos, max_workers>>

\* a skip that forgets the folder whose path is gone
RefreshSkipForgets ==
    /\ idx.pc = "refresh"
    /\ idx.i <= Len(idx.monitored)
    /\ ~exists(fs, idx.monitored[idx.i].path)
    /\ folders' = SubSeq(folders, 1, idx.monitored[idx.i].id - 1)
    /\ idx' = [idx EXCEPT !.i = @ + 1]
    /\ UNCHANGED <<req, tags, photo_tags, mgr, fs, photos, max_workers, pool, dup>>

\* lines 89-91: a monitored folder whose path no longer exists is skipped
RefreshSkip ==
    /\ idx.pc = "refresh"
    /\ idx.i <= Len(idx.monitored)
    /\ ~exists(fs, idx.monitored[idx.i].path)
    /\ idx' = [idx EXCEPT !.i = @ + 1]
    /\ UNCHANGED <<req, tags, photo_tags, mgr, fs, folders, photos, max_workers, pool, dup>>

\* lines 93-110: a monitored folder whose path exists is stamped and counted,
\* its known paths are read and it is scanned without recursion; the loop over
\* the scan either raises, which ends refresh_index, or adds nothing
RefreshFolder ==
    /\ idx.pc = "refresh"
    /\ idx.i <= Len(idx.monitored)
    /\ exists(fs, idx.monitored[idx.i].path)
    /\ \E listing \in Listings(fs) :
       LET folder_path == idx.monitored[idx.i].path
           folder_id == idx.monitored[idx.i].id
           existing_photos == get_photos_by_folder(photos, folder_id)
           existing_paths == {existing_photos[k].file_path : k \in 1..Len(existing_photos)}
           scan_result == scan_directory(fs, listing, folder_path, FALSE)
           raised == RefreshLoop(items(scan_result), existing_paths) = "TypeError"
       IN  /\ folders' = update_folder(folders, folder_id)
           /\ idx' = [idx EXCEPT !.folders_updated = @ + 1,
                                 !.i = IF raised THEN @ ELSE @ + 1,
                                 !.pc = IF raised THEN "RAISED" ELSE @]
    /\ UNCHANGED <<req, tags, photo_tags, mgr, fs, photos, max_workers, pool, dup>>

\* lines 112-117: the loop is over and refresh_index returns
RefreshReturn ==
    /\ idx.pc = "refresh"
    /\ idx.i > Len(idx.monitored)
    /\ idx' = [idx EXCEPT !.pc = "REFRESHED",
                          !.ret = [folders_updated |-> idx.folders_updated,
                                   photos_added |-> idx.photos_added,
                                   elapsed |-> "elapsed"]]
    /\ UNCHANGED <<req, tags, photo_tags, mgr, fs, folders, photos, max_workers, pool, dup>>

(***************************************************************************)
(* LibraryIndexer._process_images: the executor and its workers            *)
(***************************************************************************)
\* task states: "queued", "running" (past the existence check), and the ends
\* "exists" (line 140), "added" and "dup" (line 155), "failed" (line 158),
\* "raised" (the existence check of line 137 raised), "cancelled"
TaskEnded == {"exists", "added", "dup", "failed"}

\* a process_image that answers True for a path it found in the store
process_image_returns_known(state) == state \in {"added", "exists"}

\* the value process_image returns to executor.map for a task that ended
process_image_returns(state) == state = "added"

\* lines 137-140: the existence check, outside the try block
process_image_check(ph, image_path, check_raises) ==
    IF check_raises THEN "raised"
    ELSE IF get_photo_by_path(ph, image_path) # << >> THEN "exists"
    ELSE "running"

\* a process_image that answers True whatever add_photo yields
process_image_insert_unchecked(f, ph, image_path, folder_id, io_error) ==
    LET metadata == extract_metadata(f, image_path)
    IN  IF ~exists(f, image_path) \/ io_error
        THEN [rows |-> ph, state |-> "failed"]
        ELSE LET file_hash == calculate_file_hash(Lookup(f, image_path).bytes,
                                                  block_size_default)
                 r == add_photo(ph, image_path, folder_id,
                                [file_hash |-> file_hash] @@ metadata)
             IN  [rows |-> r.rows, state |-> "added"]

\* lines 142-158: extraction, hashing and the insert, inside the try block
process_image_insert(f, ph, image_path, folder_id, io_error) ==
    LET metadata == extract_metadata(f, image_path)
    IN  IF ~exists(f, image_path) \/ io_error
        THEN [rows |-> ph, state |-> "failed"]
        ELSE LET file_hash == calculate_file_hash(Lookup(f, image_path).bytes,
                                                  block_size_default)
                 r == add_photo(ph, image_path, folder_id,
                                [file_hash |-> file_hash] @@ metadata)
             IN  IF r.ok THEN [rows |-> r.rows, state |-> "added"]
                 ELSE [rows |-> ph, state |-> "dup"]

Tasks(c) == 1..Len(pool[c].task)
Running(c) == {i \in Tasks(c) : pool[c].task[i] = "running"}

\* line 162: sum(1 for result in results if result)
added_count(task) == Cardinality({i \in 1..Len(task) : process_image_returns(task[i])})

\* _process_images(image_paths, folder_id) is called: the executor is created
\* and executor.map submits every task
ProcessImagesCall(c, image_paths, folder_id) ==
    /\ IdxReturned
    /\ ~PoolActive(c)
    /\ pool' = [pool EXCEPT ![c] = [pc |-> "running", paths |-> image_paths,
                                    folder_id |-> folder_id,
                                    task |-> [i \in 1..Len(image_paths) |-> "queued"],
                                    ret |-> 0, before |-> photos]]
    /\ idx' = IdxIdle
    /\ dup' = NoDup
    /\ UNCHANGED <<req, tags, photo_tags, mgr, fs, folders, photos, max_workers>>

\* a free worker takes the next queued task and runs the existence check
TaskCheck(c, i, check_raises) ==
    /\ PoolActive(c)
    /\ i \in Tasks(c)
    /\ pool[c].task[i] = "queued"
    /\ \A j \in 1..(i - 1) : pool[c].task[j] # "queued"
    /\ Cardinality(Running(c)) < max_workers
    /\ pool' = [pool EXCEPT ![c].task[i] =
                    process_image_check(photos, pool[c].paths[i], check_raises)]
    /\ UNCHANGED <<req, tags, photo_tags, mgr, fs, folders, photos, max_workers, idx, dup>>

\* the worker extracts, hashes and inserts
TaskInsert(c, i, io_error) ==
    /\ PoolActive(c)
    /\ i \in Tasks(c)
    /\ pool[c].task[i] = "running"
    /\ LET r == process_image_insert(fs, photos, pool[c].paths[i], pool[c].folder_id,
                                     io_error)
       IN  /\ photos' = r.rows
           /\ pool' = [pool EXCEPT ![c].task[i] = r.state]
    /\ UNCHANGED <<req, tags, photo_tags, mgr, fs, folders, max_workers, idx, dup>>

\* list(executor.map(...)) reaches a task whose call raised: the exception
\* leaves the result iterator, which cancels every task still queued
MapRaises(c) ==
    /\ pool[c].pc = "running"
    /\ \E i \in Tasks(c) :
          /\ pool[c].task[i] = "raised"
          /\ \A j \in 1..(i - 1) : pool[c].task[j] \in TaskEnded
    /\ pool' = [pool EXCEPT ![c].pc = "unwinding",
                            ![c].task = [i \in Tasks(c) |->
                                IF pool[c].task[i] = "queued" THEN "cancelled"
                                ELSE pool[c].task[i]]]
    /\ UNCHANGED <<req, tags, photo_tags, mgr, fs, folders, photos, max_workers, idx, dup>>

\* an executor that is left without waiting for its running tasks
ProcessImagesRaisesAtOnce(c) ==
    /\ pool[c].pc = "unwinding"
    /\ pool' = [pool EXCEPT ![c].pc = "raised"]
    /\ UNCHANGED <<req, tags, photo_tags, mgr, fs, folders, photos, max_workers, idx, dup>>

\* the with block waits for the running tasks, then the exception reaches the caller
ProcessImagesRaises(c) ==
    /\ pool[c].pc = "unwinding"
    /\ Running(c) = {}
    /\ pool' = [pool EXCEPT ![c].pc = "raised"]
    /\ UNCHANGED <<req, tags, photo_tags, mgr, fs, folders, photos, max_workers, idx, dup>>

\* lines 161-164: every task has ended; the count of True results is returned
ProcessImagesReturn(c) ==
    /\ pool[c].pc = "running"
    /\ \A i \in Tasks(c) : pool[c].task[i] \in TaskEnded
    /\ pool' = [pool EXCEPT ![c].pc = "returned", ![c].ret = added_count(pool[c].task)]
    /\ UNCHANGED <<req, tags, photo_tags, mgr, fs, folders, photos, max_workers, idx, dup>>

(***************************************************************************)
(* The store's duplicate query, modelled from the specification            *)
(***************************************************************************)
RECURSIVE str(_)
\* str(n): the decimal digits of a non-negative integer
str(n) == IF n < 10 THEN <<n>> ELSE Append(str(n \div 10), n % 10)

RECURSIVE int(_)
\* int(s): the integer a string of decimal digits denotes
int(s) == IF s = << >> THEN 0 ELSE 10 * int(SubSeq(s, 1, Len(s) - 1)) + s[Len(s)]

\* findDuplicateHashGroups: one {file_hash, photo_ids} per file_hash that at
\* least two Photo rows share; photo_ids are the ids as strings, smallest first
find_duplicates(ph) ==
    LET Sharing(i) == {j \in PhotoIds(ph) : ph[j].file_hash = ph[i].file_hash}
        firsts == {i \in PhotoIds(ph) :
                      Cardinality(Sharing(i)) > 1 /\ \A j \in Sharing(i) : i <= j}
        order == Ascending(firsts)
    IN  [k \in 1..Len(order) |->
            [file_hash |-> ph[order[k]].file_hash,
             photo_ids |-> [m \in 1..Cardinality(Sharing(order[k])) |->
                               str(Ascending(Sharing(order[k]))[m])]]]

(***************************************************************************)
(* DuplicateDetectionService                                               *)
(***************************************************************************)
RECURSIVE hydrate(_, _)
\* lines 51-56: the Photo rows of the ids that get_photo resolves, in order
hydrate(ph, photo_ids) ==
    IF photo_ids = << >> THEN << >>
    ELSE get_photo(ph, Head(photo_ids)) \o hydrate(ph, Tail(photo_ids))

\* a filter that asks for more than two photos
is_duplicate_group_above_two(group_photos) == Len(group_photos) > 2

\* a filter that lets every group through in which one id resolved
is_duplicate_group_of_one(group_photos) == Len(group_photos) > 0

\* line 58: only groups with at least 2 photos are reported
is_duplicate_group(group_photos) == Len(group_photos) > 1

RECURSIVE enhance(_, _)
\* the loop of lines 49-62 over the store's groups
enhance(ph, db_results) ==
    IF db_results = << >> THEN << >>
    ELSE LET group == Head(db_results)
             photo_ids == [k \in 1..Len(group.photo_ids) |-> int(group.photo_ids[k])]
             group_photos == hydrate(ph, photo_ids)
             rest == enhance(ph, Tail(db_results))
         IN  IF is_duplicate_group(group_photos)
             THEN <<[file_hash |-> group.file_hash, photos |-> group_photos]>> \o rest
             ELSE rest

find_exact_duplicates(ph) == enhance(ph, find_duplicates(ph))

\* line 80: photo.get("file_hash"); None is the empty string here, both are
\* falsy at line 81
get_file_hash(photo) == IF "file_hash" \in DOMAIN photo THEN photo.file_hash ELSE << >>

\* a test that takes every hash value, the empty one too
any_hash(file_hash) == TRUE

\* line 81: if file_hash
truthy_hash(file_hash) == file_hash # << >>

RECURSIVE group_by_hash(_, _)
\* lines 78-84: hash_groups, a dict in the order its keys were inserted,
\* after the loop over the photos of the folder
group_by_hash(folder_photos, hash_groups) ==
    IF folder_photos = << >> THEN hash_groups
    ELSE LET photo == Head(folder_photos)
             file_hash == get_file_hash(photo)
             known == {n \in 1..Len(hash_groups) : hash_groups[n].file_hash = file_hash}
         IN  IF ~truthy_hash(file_hash)
             THEN group_by_hash(Tail(folder_photos), hash_groups)
             ELSE IF known = {}
             THEN group_by_hash(Tail(folder_photos),
                                Append(hash_groups, [file_hash |-> file_hash,
                                                     photos |-> <<photo>>]))
             ELSE group_by_hash(Tail(folder_photos),
                                [hash_groups EXCEPT
                                    ![CHOOSE n \in known : TRUE].photos = Append(@, photo)])

\* lines 87-95: the groups with more than one photo, in the order of the dict
find_duplicates_in_folder(ph, folder_id) ==
    SelectSeq(group_by_hash(get_photos_by_folder(ph, folder_id), << >>),
              LAMBDA group : Len(group.photos) > 1)

\* lines 354-355: photo["file_size"] when photo.get("file_size") is truthy; a
\* row without the column value, or with the value 0, adds 0
get_file_size(photo) ==
    IF "file_size" \in DOMAIN photo /\ photo.file_size # 0 THEN photo.file_size ELSE 0

RECURSIVE wasted(_)
\* lines 353-355: the file sizes of a list of photos, a missing size adding 0
wasted(group_photos) ==
    IF group_photos = << >> THEN 0
    ELSE get_file_size(Head(group_photos)) + wasted(Tail(group_photos))

\* a slice that keeps every photo of the group
skip_nothing(group_photos) == group_photos

\* line 353: group["photos"][1:], the photos after the first one
skip_first(group_photos) == Tail(group_photos)

RECURSIVE statistics_counting_all(_, _)
\* a statistics loop that counts every photo of a group as a duplicate
statistics_counting_all(duplicate_groups, acc) ==
    IF duplicate_groups = << >> THEN acc
    ELSE LET group == Head(duplicate_groups)
             group_size == Len(group.photos)
         IN  statistics_counting_all(Tail(duplicate_groups),
                 [total_groups |-> acc.total_groups + 1,
                  total_duplicates |-> acc.total_duplicates + group_size,
                  wasted_space_bytes |-> acc.wasted_space_bytes
                                         + wasted(Tail(group.photos)),
                  largest_group_size |-> IF group_size > acc.largest_group_size
                                         THEN group_size
                                         ELSE acc.largest_group_size])

RECURSIVE statistics(_, _)
\* the loop of lines 347-358 and the record of lines 360-366
statistics(duplicate_groups, acc) ==
    IF duplicate_groups = << >> THEN acc
    ELSE LET group == Head(duplicate_groups)
             group_size == Len(group.photos)
         IN  statistics(Tail(duplicate_groups),
                 [total_groups |-> acc.total_groups + 1,
                  total_duplicates |-> acc.total_duplicates + (group_size - 1),
                  wasted_space_bytes |-> acc.wasted_space_bytes
                                         + wasted(skip_first(group.photos)),
                  largest_group_size |-> IF group_size > acc.largest_group_size
                                         THEN group_size
                                         ELSE acc.largest_group_size])

get_duplicate_statistics(ph) == statistics(find_exact_duplicates(ph), NoStatistics)

\* photo.get(key, 0) or 0 of a numeric column (None is the empty list)
or0(value) == IF value = << >> THEN 0 ELSE value[1]
\* the truth value of a numeric column and of a text column
truthy(value) == value # << >> /\ value[1] # 0
truthy_text(value) == value # << >> /\ value[1] # ""

\* lines 305-324: the score of one photo
score(photo) ==
    or0(photo.width) * or0(photo.height)
    + (IF truthy_text(photo.date_taken) THEN 10 ELSE 0)
    + (IF truthy_text(photo.camera_make) /\ truthy_text(photo.camera_model) THEN 5 ELSE 0)
    + (IF truthy(photo.iso) \/ truthy(photo.aperture) \/ truthy(photo.exposure_time)
       THEN 5 ELSE 0)
    + or0(photo.rating) * 20
    + (IF truthy(photo.is_favorite) THEN 50 ELSE 0)

RECURSIVE insert_before_equals(_, _)
\* an insertion that puts a photo in front of the photos of equal score
insert_before_equals(sorted, x) ==
    IF sorted = << >> THEN <<x>>
    ELSE IF Head(sorted)[2] > x[2]
         THEN <<Head(sorted)>> \o insert_before_equals(Tail(sorted), x)
         ELSE <<x>> \o sorted

RECURSIVE insert_by_score(_, _)
\* list.sort(key=score, reverse=True) is stable: a photo goes behind the photos
\* of higher or equal score that precede it
insert_by_score(sorted, x) ==
    IF sorted = << >> THEN <<x>>
    ELSE IF Head(sorted)[2] >= x[2]
         THEN <<Head(sorted)>> \o insert_by_score(Tail(sorted), x)
         ELSE <<x>> \o sorted

RECURSIVE sort_by_score(_)
\* line 329: scored_photos.sort(key=lambda x: x[1], reverse=True)
sort_by_score(scored_photos) ==
    IF scored_photos = << >> THEN << >>
    ELSE insert_by_score(
             sort_by_score(SubSeq(scored_photos, 1, Len(scored_photos) - 1)),
             scored_photos[Len(scored_photos)])

\* suggest_duplicates_to_keep(duplicate_group): the photo ids, best first
suggest_duplicates_to_keep(duplicate_group) ==
    LET group_photos == duplicate_group.photos
        scored_photos == [k \in 1..Len(group_photos) |->
                             <<group_photos[k], score(group_photos[k])>>]
        sorted == sort_by_score(scored_photos)
    IN  [k \in 1..Len(sorted) |-> sorted[k][1].id]

(***************************************************************************)
(* The store's trash and delete operations, modelled from the              *)
(* specification, and DuplicateDetectionService.delete_duplicate           *)
(***************************************************************************)
\* the recoverable location a trashed file is moved to
TrashPath(path) == "/trash" \o path

\* os.rename(from, to) and os.remove(path)
Rename(f, from, to) ==
    [p \in DOMAIN f \cup {to} |->
        IF p = to THEN Lookup(f, from) ELSE IF p = from THEN Absent ELSE f[p]]
Remove(f, path) == [p \in DOMAIN f |-> IF p = path THEN Absent ELSE f[p]]

\* moveToTrash: "reversible removal that relocates the file instead of erasing
\* it"; the row stays and reflects the trashed state. False when there is no
\* active row of this id, when its file is gone or when the move fails.
move_to_trash(ph, f, photo_id, fails) ==
    LET row == get_photo(ph, photo_id)
    IN  IF row = << >> \/ fails THEN [rows |-> ph, fs |-> f, ok |-> FALSE]
        ELSE IF row[1].status # "active" \/ ~exists(f, row[1].file_path)
        THEN [rows |-> ph, fs |-> f, ok |-> FALSE]
        ELSE [rows |-> [ph EXCEPT ![photo_id].status = "trashed"],
              fs |-> Rename(f, row[1].file_path, TrashPath(row[1].file_path)),
              ok |-> TRUE]

\* permanentlyDelete: removes the row and the file irreversibly. False when
\* there is no row of this id or when the removal fails.
permanently_delete_photo(ph, f, photo_id, fails) ==
    LET row == get_photo(ph, photo_id)
    IN  IF row = << >> \/ fails THEN [rows |-> ph, fs |-> f, ok |-> FALSE]
        ELSE [rows |-> [ph EXCEPT ![photo_id].status = "deleted"],
              fs |-> Remove(f, IF row[1].status = "trashed"
                               THEN TrashPath(row[1].file_path)
                               ELSE row[1].file_path),
              ok |-> TRUE]

\* a delete_duplicate that moves to the trash whatever permanent says
delete_duplicate_always_trash(ph, f, photo_id, permanent, fails) ==
    [call |-> "move_to_trash"] @@ move_to_trash(ph, f, photo_id, fails)

\* lines 279-282: the store operation delete_duplicate delegates to and its result
delete_duplicate(ph, f, photo_id, permanent, fails) ==
    IF permanent
    THEN [call |-> "permanently_delete_photo"]
         @@ permanently_delete_photo(ph, f, photo_id, fails)
    ELSE [call |-> "move_to_trash"] @@ move_to_trash(ph, f, photo_id, fails)

\* delete_duplicate(photo_id, permanent) is called; the store operation may fail
DeleteDuplicate(photo_id, permanent, fails) ==
    /\ ClientFree
    /\ dup.pc = "idle"
    /\ LET r == delete_duplicate(photos, fs, photo_id, permanent, fails)
       IN  /\ photos' = r.rows
           /\ fs' = r.fs
           /\ dup' = [dup EXCEPT !.pc = "deleted",
                                 !.args = [photo_id |-> photo_id, permanent |-> permanent],
                                 !.calls = Append(@, [op |-> r.call, id |-> photo_id,
                                                      ok |-> r.ok]),
                                 !.ret = r.ok]
    /\ UNCHANGED <<req, tags, photo_tags, mgr, folders, max_workers, idx, pool>>

(***************************************************************************)
(* The duplicates command of the command line                              *)
(***************************************************************************)
\* a command that keeps no photo of a group
keep_id_of_nobody(suggestions) == 0

\* keep_id = suggestions[0]
keep_id_of(suggestions) == suggestions[1]

\* the command is started with its --folder-id option (None is the empty
\* list) and its --auto-delete and --permanent flags
DuplicatesCommand(folder_id, auto_delete, permanent) ==
    /\ ClientFree
    /\ dup.pc = "idle"
    /\ dup' = [dup EXCEPT !.pc = "cmd_find",
                          !.args = [folder_id |-> folder_id, auto_delete |-> auto_delete,
                                    permanent |-> permanent]]
    /\ UNCHANGED <<req, tags, photo_tags, mgr, fs, folders, photos, max_workers, idx, pool>>

\* lines 561-570: service.find_duplicates_in_folder(folder_id) when a folder
\* id is given, service.find_exact_duplicates() otherwise; without a group the
\* command returns
CommandFind ==
    /\ dup.pc = "cmd_find"
    /\ LET duplicates == IF dup.args.folder_id # << >>
                         THEN find_duplicates_in_folder(photos, dup.args.folder_id[1])
                         ELSE find_exact_duplicates(photos)
       IN  dup' = [dup EXCEPT
                     !.groups = duplicates,
                     !.g = 1, !.k = 1,
                     !.pc = IF duplicates = << >> THEN "cmd_done" ELSE "cmd_stats"]
    /\ UNCHANGED <<req, tags, photo_tags, mgr, fs, folders, photos, max_workers, idx, pool>>

\* lines 573-577: service.get_duplicate_statistics(), a query of its own over
\* the whole library whatever the folder id; the command goes on to the
\* deletions only when auto_delete is set
CommandStatistics ==
    /\ dup.pc = "cmd_stats"
    /\ dup' = [dup EXCEPT !.stats = get_duplicate_statistics(photos),
                          !.pc = IF dup.args.auto_delete THEN "cmd_delete" ELSE "cmd_done"]
    /\ UNCHANGED <<req, tags, photo_tags, mgr, fs, folders, photos, max_workers, idx, pool>>

\* one turn of the inner loop: the photo at position k of group g is submitted
\* to delete_duplicate unless it is the first suggested photo of its group
CommandDelete(fails) ==
    /\ dup.pc = "cmd_delete"
    /\ LET group == dup.groups[dup.g]
           keep_id == keep_id_of(suggest_duplicates_to_keep(group))
           photo == group.photos[dup.k]
           r == delete_duplicate(photos, fs, photo.id, dup.args.permanent, fails)
           last_photo == dup.k = Len(group.photos)
           last_group == dup.g = Len(dup.groups)
           next == [dup EXCEPT !.k = IF last_photo THEN 1 ELSE @ + 1,
                               !.g = IF last_photo /\ ~last_group THEN @ + 1 ELSE @,
                               !.pc = IF last_photo /\ last_group
                                      THEN "cmd_done" ELSE @]
       IN  IF photo.id # keep_id
           THEN /\ photos' = r.rows
                /\ fs' = r.fs
                /\ dup' = [next EXCEPT !.calls = Append(@, [op |-> r.call,
                                                            id |-> photo.id,
                                                            ok |-> r.ok])]
           ELSE /\ ~fails
                /\ dup' = next
                /\ UNCHANGED <<req, tags, photo_tags, mgr, fs, photos>>
    /\ UNCHANGED <<req, tags, photo_tags, mgr, folders, max_workers, idx, pool>>

\* find_exact_duplicates() is called
FindExactDuplicates ==
    /\ ClientFree
    /\ dup.pc = "idle"
    /\ dup' = [dup EXCEPT !.pc = "found",
                          !.groups = find_exact_duplicates(photos)]
    /\ UNCHANGED <<req, tags, photo_tags, mgr, fs, folders, photos, max_workers, idx, pool>>

\* find_exact_duplicates() is called and asks the store for the hash groups:
\* line 45
FindStart ==
    /\ ClientFree
    /\ dup.pc = "idle"
    /\ dup' = [NoDup EXCEPT !.pc = "find_resolve",
                            !.db_results = find_duplicates(photos)]
    /\ UNCHANGED <<req, tags, photo_tags, mgr, fs, folders, photos, max_workers, idx, pool>>

\* lines 49-62, one turn of the inner loop: the id at position k of group g is
\* looked up in the store as it is now; after the last id of a group the
\* group is reported when at least 2 of its photos were found
FindResolve ==
    /\ dup.pc = "find_resolve"
    /\ dup.g <= Len(dup.db_results)
    /\ LET group == dup.db_results[dup.g]
           photo_id == int(group.photo_ids[dup.k])
           photo_info == get_photo(photos, photo_id)
           group_photos == dup.group.photos \o photo_info
           lookup == [op |-> "get_photo", id |-> photo_id,
                      ok |-> photo_id \in PhotoIds(photos)]
       IN  IF dup.k < Len(group.photo_ids)
           THEN dup' = [dup EXCEPT !.k = @ + 1, !.group.photos = group_photos,
                                   !.calls = Append(@, lookup)]
           ELSE dup' = [dup EXCEPT
                          !.k = 1, !.g = @ + 1, !.group.photos = << >>,
                          !.calls = Append(@, lookup),
                          !.groups = IF is_duplicate_group(group_photos)
                                     THEN Append(@, [file_hash |-> group.file_hash,
                                                     photos |-> group_photos])
                                     ELSE @]
    /\ UNCHANGED <<req, tags, photo_tags, mgr, fs, folders, photos, max_workers, idx, pool>>

\* line 64: the loop is over and the groups are returned
FindReturn ==
    /\ dup.pc = "find_resolve"
    /\ dup.g > Len(dup.db_results)
    /\ dup' = [dup EXCEPT !.pc = "found"]
    /\ UNCHANGED <<req, tags, photo_tags, mgr, fs, folders, photos, max_workers, idx, pool>>

\* another client of the store deletes a photo for good, before or while
\* find_exact_duplicates runs
PhotoDeleted(photo_id) ==
    /\ dup.pc \in {"idle", "find_resolve"}
    /\ photo_id \in PhotoIds(photos)
    /\ LET r == permanently_delete_photo(photos, fs, photo_id, FALSE)
       IN  photos' = r.rows /\ fs' = r.fs
    /\ UNCHANGED <<req, tags, photo_tags, mgr, folders, max_workers, idx, pool, dup>>

\* find_duplicates_in_folder(folder_id) is called
FindDuplicatesInFolder(folder_id) ==
    /\ ClientFree
    /\ dup.pc = "idle"
    /\ dup' = [dup EXCEPT !.pc = "found_in_folder",
                          !.args = [folder_id |-> folder_id],
                          !.groups = find_duplicates_in_folder(photos, folder_id)]
    /\ UNCHANGED <<req, tags, photo_tags, mgr, fs, folders, photos, max_workers, idx, pool>>

\* get_duplicate_statistics() is called
GetDuplicateStatistics ==
    /\ ClientFree
    /\ dup.pc = "idle"
    /\ dup' = [dup EXCEPT !.pc = "statistics",
                          !.stats = get_duplicate_statistics(photos)]
    /\ UNCHANGED <<req, tags, photo_tags, mgr, fs, folders, photos, max_workers, idx, pool>>

\* suggest_duplicates_to_keep(group) is called
SuggestDuplicatesToKeep ==
    /\ dup.pc = "idle"
    /\ dup' = [dup EXCEPT !.pc = "suggested",
                          !.ids = suggest_duplicates_to_keep(dup.group)]
    /\ UNCHANGED <<req, tags, photo_tags, mgr, fs, folders, photos, max_workers, idx, pool>>

(***************************************************************************)
(* The REST API (api.py). An endpoint is a sync function that a worker     *)
(* thread runs: between two of its store calls the other thread, the tag   *)
(* manager and the command line make theirs.                               *)
(***************************************************************************)
\* PATCH /api/photos/{photo_id} with a rating, a favorite flag or both (None
\* is the empty list) is received. Lines 306-308: 404 without the photo;
\* lines 311-315: the update dict
ApiUpdatePhoto(t, photo_id, rating, is_favorite) ==
    /\ req[t].pc = "idle"
    /\ LET photo == get_photo(photos, photo_id)
           updates == [rating |-> rating,
                       is_favorite |-> IF is_favorite = << >> THEN << >>
                                       ELSE IF is_favorite[1] THEN <<1>> ELSE <<0>>]
       IN  IF photo = << >>
           THEN /\ mgr' = Rated("api_update_photo", <<photo_id>>, rating, 404)
                /\ req' = req
           ELSE /\ req' = [req EXCEPT ![t] = [pc |-> "update_photo", photo_id |-> photo_id,
                                             updates |-> updates]]
                /\ mgr' = mgr
    /\ UNCHANGED <<fs, folders, photos, max_workers, idx, pool, dup, tags, photo_tags>>

\* line 318: if updates and db.update_photo(photo_id, **updates); line 324:
\* 500 otherwise
ApiUpdatePhotoUpdate(t, checks) ==
    /\ req[t].pc = "update_photo"
    /\ LET updates == req[t].updates
           r == update_photo(photos, req[t].photo_id, updates.rating,
                             updates.is_favorite, checks)
       IN  IF (updates.rating # << >> \/ updates.is_favorite # << >>) /\ r.ok
           THEN /\ photos' = r.rows
                /\ req' = [req EXCEPT ![t].pc = "updated_photo"]
                /\ mgr' = mgr
           ELSE /\ photos' = photos
                /\ req' = Idle(t)
                /\ mgr' = Rated("api_update_photo", <<req[t].photo_id>>, updates.rating, 500)
    /\ UNCHANGED <<fs, folders, max_workers, idx, pool, dup, tags, photo_tags>>

\* lines 319-322: the photo is read again and returned; without the row
\* updated_photo is None and line 320 raises TypeError: 500
ApiUpdatePhotoReturn(t) ==
    /\ req[t].pc = "updated_photo"
    /\ LET updated_photo == get_photo(photos, req[t].photo_id)
       IN  mgr' = Rated("api_update_photo", <<req[t].photo_id>>, req[t].updates.rating,
                        IF updated_photo = << >> THEN 500 ELSE 200)
    /\ req' = Idle(t)
    /\ UNCHANGED <<fs, folders, photos, max_workers, idx, pool, dup, tags, photo_tags>>

\* POST /api/folders is received. Lines 217-218: 400 when the path does not
\* exist
ApiCreateFolder(t, path, is_monitored) ==
    /\ req[t].pc = "idle"
    /\ Len(folders) + Cardinality({u \in Threads : req[u].pc = "create_folder"}) < MaxFolders
    /\ IF ~exists(fs, path)
       THEN /\ mgr' = Answered("api_create_folder", 400)
            /\ req' = req
       ELSE /\ req' = [req EXCEPT ![t] = [pc |-> "create_folder", path |-> path,
                                         is_monitored |-> is_monitored]]
            /\ mgr' = mgr
    /\ UNCHANGED <<fs, folders, photos, max_workers, idx, pool, dup, tags, photo_tags>>

\* lines 221-230: db.add_folder, then library_indexer.index_folder(folder_id)
\* for a monitored folder: index_folder is given the id in the place of the
\* path, fails at os.path.basename(folder_id) (library_indexer.py line 53,
\* TypeError) before any store call and returns (0, 0, 0.0)
ApiCreateFolderAdd(t) ==
    /\ req[t].pc = "create_folder"
    /\ LET r == add_folder(folders, req[t].path, req[t].is_monitored)
       IN  /\ folders' = r.rows
           /\ req' = [req EXCEPT ![t] = [pc |-> "created_folder", folder_id |-> r.id]]
    /\ UNCHANGED <<mgr, fs, photos, max_workers, idx, pool, dup, tags, photo_tags>>

\* lines 233-236: the folder is read again and returned; 500 without the row
ApiCreateFolderReturn(t) ==
    /\ req[t].pc = "created_folder"
    /\ LET created_folder == get_folder(folders, req[t].folder_id)
       IN  mgr' = Answered("api_create_folder", IF created_folder = << >> THEN 500 ELSE 201)
    /\ req' = Idle(t)
    /\ UNCHANGED <<fs, folders, photos, max_workers, idx, pool, dup, tags, photo_tags>>

\* DELETE /api/folders/{folder_id} is received. Lines 247-249: 404 without
\* the folder
ApiDeleteFolder(t, folder_id) ==
    /\ req[t].pc = "idle"
    /\ IF get_folder(folders, folder_id) = << >>
       THEN /\ mgr' = Answered("api_delete_folder", 404)
            /\ req' = req
       ELSE /\ req' = [req EXCEPT ![t] = [pc |-> "delete_folder", folder_id |-> folder_id]]
            /\ mgr' = mgr
    /\ UNCHANGED <<fs, folders, photos, max_workers, idx, pool, dup, tags, photo_tags>>

\* lines 252-255: db.delete_folder; 500 when it returns False
ApiDeleteFolderDelete(t, cascade) ==
    /\ req[t].pc = "delete_folder"
    /\ LET r == delete_folder(folders, photos, req[t].folder_id, cascade)
       IN  /\ folders' = r.rows
           /\ photos' = r.photos
           /\ mgr' = Answered("api_delete_folder", IF r.ok THEN 200 ELSE 500)
    /\ req' = Idle(t)
    /\ UNCHANGED <<fs, max_workers, idx, pool, dup, tags, photo_tags>>

\* POST /api/tags is received: line 569, tag_manager.create_tag runs on the
\* thread of the endpoint
ApiCreateTag(t, name, parent_id) == CreateTagLookup(t, TRUE, name, parent_id)

\* PUT /api/tags/{tag_id} is received. Lines 590-592: 404 without the tag
ApiUpdateTag(t, tag_id, name, parent_id) ==
    /\ req[t].pc = "idle"
    /\ IF get_tag(tags, tag_id) = << >>
       THEN /\ mgr' = Answered("api_update_tag", 404)
            /\ req' = req
       ELSE /\ req' = [req EXCEPT ![t] = [pc |-> "update_tag", tag_id |-> tag_id,
                                         name |-> name, parent_id |-> parent_id]]
            /\ mgr' = mgr
    /\ UNCHANGED <<fs, folders, photos, max_workers, idx, pool, dup, tags, photo_tags>>

\* line 595: db.update_tag with the name as it was given; 500 when it returns
\* False (line 600) and when it raises
ApiUpdateTagUpdate(t) ==
    /\ req[t].pc = "update_tag"
    /\ LET r == store_update_tag(tags, req[t].tag_id, <<req[t].name>>, req[t].parent_id)
       IN  IF ~r.raised /\ r.ok
           THEN /\ tags' = r.rows
                /\ req' = [req EXCEPT ![t].pc = "updated_tag"]
                /\ mgr' = mgr
           ELSE /\ tags' = tags
                /\ req' = Idle(t)
                /\ mgr' = Answered("api_update_tag", 500)
    /\ UNCHANGED <<fs, folders, photos, max_workers, idx, pool, dup, photo_tags>>

\* lines 596-598: the tag is read again and returned; without the row
\* updated_tag is None and line 597 raises TypeError: 500
ApiUpdateTagReturn(t) ==
    /\ req[t].pc = "updated_tag"
    /\ LET updated_tag == get_tag(tags, req[t].tag_id)
       IN  mgr' = Answered("api_update_tag", IF updated_tag = << >> THEN 500 ELSE 200)
    /\ req' = Idle(t)
    /\ UNCHANGED <<fs, folders, photos, max_workers, idx, pool, dup, tags, photo_tags>>

\* DELETE /api/tags/{tag_id} is received. Lines 611-613: 404 without the tag
ApiDeleteTag(t, tag_id) ==
    /\ req[t].pc = "idle"
    /\ IF get_tag(tags, tag_id) = << >>
       THEN /\ mgr' = Answered("api_delete_tag", 404)
            /\ req' = req
       ELSE /\ req' = [req EXCEPT ![t] = [pc |-> "delete_tag", tag_id |-> tag_id]]
            /\ mgr' = mgr
    /\ UNCHANGED <<fs, folders, photos, max_workers, idx, pool, dup, tags, photo_tags>>

\* lines 616-619: db.delete_tag; 500 when it returns False
ApiDeleteTagDelete(t) ==
    /\ req[t].pc = "delete_tag"
    /\ LET r == store_delete_tag(tags, photo_tags, req[t].tag_id)
       IN  /\ tags' = r.rows
           /\ photo_tags' = r.pairs
           /\ mgr' = Answered("api_delete_tag", IF r.ok THEN 200 ELSE 500)
    /\ req' = Idle(t)
    /\ UNCHANGED <<fs, folders, photos, max_workers, idx, pool, dup>>

\* PUT and DELETE /api/photos/{photo_id}/tags/{tag_id} are received (op is
\* "add_tag_to_photo" or "remove_tag_from_photo"). Lines 657-659 and
\* 684-686: db.get_photo, 404 without the photo
ApiTagOfPhoto(t, op, photo_id, tag_id) ==
    /\ req[t].pc = "idle"
    /\ IF get_photo(photos, photo_id) = << >>
       THEN /\ mgr' = Answered("api_" \o op, 404)
            /\ req' = req
       ELSE /\ req' = [req EXCEPT ![t] = [pc |-> "tag_of_photo", op |-> op,
                                         photo_id |-> photo_id, tag_id |-> tag_id]]
            /\ mgr' = mgr
    /\ UNCHANGED <<fs, folders, photos, max_workers, idx, pool, dup, tags, photo_tags>>

\* lines 661-663 and 688-690: db.get_tag, 404 without the tag
ApiTagOfPhotoTag(t) ==
    /\ req[t].pc = "tag_of_photo"
    /\ IF get_tag(tags, req[t].tag_id) = << >>
       THEN /\ mgr' = Answered("api_" \o req[t].op, 404)
            /\ req' = Idle(t)
       ELSE /\ req' = [req EXCEPT ![t].pc = req[t].op]
            /\ mgr' = mgr
    /\ UNCHANGED <<fs, folders, photos, max_workers, idx, pool, dup, tags, photo_tags>>

\* lines 666-669: db.add_tag_to_photo; 500 when it returns False
ApiAddTagToPhoto(t) ==
    /\ req[t].pc = "add_tag_to_photo"
    /\ LET r == add_tag_to_photo(photo_tags, photos, tags, req[t].photo_id, req[t].tag_id)
       IN  /\ photo_tags' = r.pairs
           /\ mgr' = Answered("api_add_tag_to_photo", IF r.ok THEN 200 ELSE 500)
    /\ req' = Idle(t)
    /\ UNCHANGED <<fs, folders, photos, max_workers, idx, pool, dup, tags>>

\* lines 693-696: db.remove_tag_from_photo; 500 when it returns False
ApiRemoveTagFromPhoto(t) ==
    /\ req[t].pc = "remove_tag_from_photo"
    /\ LET r == remove_tag_from_photo(photo_tags, req[t].photo_id, req[t].tag_id)
       IN  /\ photo_tags' = r.pairs
           /\ mgr' = Answered("api_remove_tag_from_photo", IF r.ok THEN 200 ELSE 500)
    /\ req' = Idle(t)
    /\ UNCHANGED <<fs, folders, photos, max_workers, idx, pool, dup, tags>>

\* POST /api/duplicates/action is received. Lines 794-800: 400 without photo
\* ids and for an action that is none of trash, delete and keep
ApiPerformDuplicateAction(t, photo_ids, action) ==
    /\ req[t].pc = "idle"
    /\ IF photo_ids = << >> \/ action \notin {"trash", "delete", "keep"}
       THEN /\ mgr' = Answered("api_perform_duplicate_action", 400)
            /\ req' = req
       ELSE /\ req' = [req EXCEPT ![t] = [pc |-> "duplicate_action", photo_ids |-> photo_ids,
                                         action |-> action, k |-> 1, results |-> << >>]]
            /\ mgr' = mgr
    /\ UNCHANGED <<fs, folders, photos, max_workers, idx, pool, dup, tags, photo_tags>>

\* lines 804-808, one turn of the loop: the photo is looked up; without it
\* the turn ends with a failure in the results
ApiDuplicateActionLookup(t) ==
    /\ req[t].pc = "duplicate_action"
    /\ req[t].k <= Len(req[t].photo_ids)
    /\ LET photo_id == req[t].photo_ids[req[t].k]
       IN  req' = IF get_photo(photos, photo_id) = << >>
                  THEN [req EXCEPT ![t].k = @ + 1,
                                   ![t].results = Append(@, [photo_id |-> photo_id,
                                                             success |-> FALSE])]
                  ELSE [req EXCEPT ![t].pc = "duplicate_action_found"]
    /\ UNCHANGED <<mgr, fs, folders, photos, max_workers, idx, pool, dup, tags, photo_tags>>

\* lines 810-823, the rest of the turn: delete_duplicate without permanent for
\* trash and with it for delete; keep does nothing and adds no result
ApiDuplicateActionDelete(t, fails) ==
    /\ req[t].pc = "duplicate_action_found"
    /\ LET photo_id == req[t].photo_ids[req[t].k]
           r == delete_duplicate(photos, fs, photo_id, req[t].action = "delete", fails)
       IN  IF req[t].action = "keep"
           THEN /\ ~fails
                /\ req' = [req EXCEPT ![t].pc = "duplicate_action", ![t].k = @ + 1]
                /\ UNCHANGED <<photos, fs>>
           ELSE /\ photos' = r.rows
                /\ fs' = r.fs
                /\ req' = [req EXCEPT ![t].pc = "duplicate_action", ![t].k = @ + 1,
                                      ![t].results = Append(@, [photo_id |-> photo_id,
                                                                success |-> r.ok])]
    /\ UNCHANGED <<mgr, folders, max_workers, idx, pool, dup, tags, photo_tags>>

\* lines 826-830: the loop is over and the results are returned
ApiDuplicateActionReturn(t) ==
    /\ req[t].pc = "duplicate_action"
    /\ req[t].k > Len(req[t].photo_ids)
    /\ mgr' = [op |-> "api_perform_duplicate_action", ret |-> 200,
               details |-> req[t].results]
    /\ req' = Idle(t)
    /\ UNCHANGED <<fs, folders, photos, max_workers, idx, pool, dup, tags, photo_tags>>

(***************************************************************************)
(* Specifications                                                          *)
(***************************************************************************)
\* one client of one indexer on an empty store
Init ==
    /\ fs \in FsStates
    /\ folders = << >>
    /\ photos = << >>
    /\ max_workers \in WorkerCounts
    /\ tags = << >>
    /\ photo_tags = {}
    /\ mgr = NoCall
    /\ req = NoRequests
    /\ idx = IdxIdle
    /\ pool = [c \in {1} |-> PoolIdle]
    /\ dup = NoDup

NextIndex ==
    \/ \E w \in WorkerCounts : SetMaxWorkers(w)
    \/ \E p \in IndexPaths, r \in BOOLEAN, m \in BOOLEAN : IndexFolderCall(p, r, m)
    \/ IndexFolderScan
    \/ IndexFolderRegister
    \/ IndexFolderLoop

\* the steps of the workers and of the thread that waits for them
PoolSteps ==
    \/ \E c \in DOMAIN pool, i \in 1..MaxBatch, b \in BOOLEAN : TaskCheck(c, i, b)
    \/ \E c \in DOMAIN pool, i \in 1..MaxBatch, b \in BOOLEAN : TaskInsert(c, i, b)
    \/ \E c \in DOMAIN pool : MapRaises(c)
    \/ \E c \in DOMAIN pool : ProcessImagesRaises(c)
    \/ \E c \in DOMAIN pool : ProcessImagesReturn(c)

Next ==
    \/ NextIndex
    \/ \E c \in DOMAIN pool, l \in BatchLists : ProcessImagesCall(c, l, 1)
    \/ PoolSteps

Spec == Init /\ [][Next]_vars

\* the indexer, and the duplicate search between its calls
NextIndexed ==
    \/ Next
    \/ FindExactDuplicates

SpecIndexed == Init /\ [][NextIndexed]_vars

\* index_folder runs in the thread that called it, and nothing in its body
\* waits for another thread: a step that is enabled is taken. The store may
\* refuse the registration of the folder.
SpecRun ==
    /\ Init
    /\ [][NextIndex \/ IndexFolderRegisterRaises]_vars
    /\ WF_vars(IndexFolderScan)
    /\ WF_vars(IndexFolderRegister)
    /\ WF_vars(IndexFolderLoop)

\* two clients calling _process_images concurrently on one store
InitPool ==
    /\ fs = Tree(File(<<1>>), File(<<1>>), FALSE, Absent)
    /\ folders = << >>
    /\ photos = << >>
    /\ max_workers \in WorkerCounts
    /\ tags = << >>
    /\ photo_tags = {}
    /\ mgr = NoCall
    /\ req = NoRequests
    /\ idx = IdxIdle
    /\ pool = [c \in {1, 2} |-> PoolIdle]
    /\ dup = NoDup

\* each of the two clients makes one call, on files that exist: client 1 with
\* a batch, client 2 with at most one file
NextPool ==
    \/ \E c \in DOMAIN pool, l \in BatchLists :
          /\ pool[c].pc = "idle"
          /\ \A i \in 1..Len(l) : exists(fs, l[i])
          /\ c # 1 => Len(l) <= 1
          /\ ProcessImagesCall(c, l, 1)
    \/ PoolSteps

SpecPool == InitPool /\ [][NextPool]_vars

\* the names of the files of a library of single-level photos
PhotoNames == <<"p1.jpg", "p2.jpg", "p3.jpg", "p4.jpg", "p5.jpg", "p6.jpg", "p7.jpg">>
PhotoPath(k) == join(Root, PhotoNames[k])

\* the bytes a photo file can hold
DupContents == {<< >>, <<1>>, <<1, 1>>}
ContentLists == UNION {[1..n -> DupContents] : n \in 0..MaxPhotos}

\* the library whose k-th file holds contents[k]
LibraryOf(contents) ==
    [p \in {Root} \cup {PhotoPath(k) : k \in 1..Len(contents)} |->
        IF p = Root THEN Dir(TRUE)
        ELSE File(contents[CHOOSE k \in 1..Len(contents) : PhotoPath(k) = p])]

RECURSIVE StoreOf(_, _)
\* the Photo rows after the first n files of a library were indexed in order
StoreOf(f, n) ==
    IF n = 0 THEN << >>
    ELSE process_image_insert(f, StoreOf(f, n - 1), PhotoPath(n), 1, FALSE).rows

\* a store indexed from a library of up to MaxPhotos files
InitDup ==
    /\ \E contents \in ContentLists :
          /\ fs = LibraryOf(contents)
          /\ photos = StoreOf(LibraryOf(contents), Len(contents))
    /\ folders = add_folder(<< >>, Root, FALSE).rows
    /\ max_workers \in {4}
    /\ tags = << >>
    /\ photo_tags = {}
    /\ mgr = NoCall
    /\ req = NoRequests
    /\ idx = IdxIdle
    /\ pool = [c \in {1} |-> PoolIdle]
    /\ dup = NoDup

NextDup ==
    \/ FindExactDuplicates
    \/ GetDuplicateStatistics

SpecDup == InitDup /\ [][NextDup]_vars

\* the nodes of the tree at or below a path
Below(path) ==
    IF path = Root THEN Nodes
    ELSE IF path = SubDir THEN {SubDir, FileC}
    ELSE {path}

\* the directory a node lies in
Parent(path) == IF path = FileC THEN SubDir ELSE Root

\* between two calls the user removes a file or a directory with all it holds
Vanish(path) ==
    /\ ClientFree
    /\ exists(fs, path)
    /\ fs' = [n \in DOMAIN fs |-> IF n \in Below(path) THEN Absent ELSE fs[n]]
    /\ idx' = IdxIdle
    /\ UNCHANGED <<req, tags, photo_tags, mgr, folders, photos, max_workers, pool, dup>>

\* between two calls the user puts a new image file into a directory
CreateFile(path) ==
    /\ ClientFree
    /\ ~exists(fs, path)
    /\ isdir(fs, Parent(path))
    /\ fs' = [fs EXCEPT ![path] = File(<<1>>)]
    /\ idx' = IdxIdle
    /\ UNCHANGED <<req, tags, photo_tags, mgr, folders, photos, max_workers, pool, dup>>

RECURSIVE IndexedRows(_, _)
\* the Photo rows after _process_images went through a list of paths of one
\* folder on an empty store
IndexedRows(f, image_paths) ==
    IF image_paths = << >> THEN << >>
    ELSE process_image_insert(f, IndexedRows(f, SubSeq(image_paths, 1, Len(image_paths) - 1)),
                              image_paths[Len(image_paths)], 1, FALSE).rows

\* a library whose files are either all unknown to the store or all indexed
InitRefresh ==
    /\ fs \in {Tree(File(<<1>>), Absent, TRUE, File(<<1>>)),
               Tree(File(<<1>>), File(<<1>>), FALSE, Absent),
               Tree(Absent, Absent, TRUE, Absent)}
    /\ folders = << >>
    /\ photos \in {<< >>, IndexedRows(fs, <<FileA, FileB, FileC>>)}
    /\ max_workers \in {4}
    /\ tags = << >>
    /\ photo_tags = {}
    /\ mgr = NoCall
    /\ req = NoRequests
    /\ idx = IdxIdle
    /\ pool = [c \in {1} |-> PoolIdle]
    /\ dup = NoDup

NextRefresh ==
    \/ \E p \in {Root, SubDir}, r \in BOOLEAN, m \in BOOLEAN : IndexFolderCall(p, r, m)
    \/ IndexFolderScan
    \/ IndexFolderRegister
    \/ IndexFolderLoop
    \/ RefreshCall
    \/ RefreshSkip
    \/ RefreshFolder
    \/ RefreshReturn
    \/ \E p \in Nodes : Vanish(p)
    \/ \E p \in ImagePaths : CreateFile(p)

SpecRefresh == InitRefresh /\ [][NextRefresh]_vars

\* the trees a scan is tried on: the root is missing, a plain file or an
\* unreadable directory, or it is a readable directory with or without each
\* of two images and a text file, and without a subdirectory, with an empty
\* one or with one that holds an image
ScanTrees ==
    {[n \in Nodes |-> IF n = Root THEN r ELSE Absent] : r \in {Absent, File(<< >>), Dir(FALSE)}}
    \cup
    {[Tree(a, b, s, c) EXCEPT ![FileT] = t] :
        a \in {Absent, File(<<1>>)}, b \in {Absent, File(<<1>>)},
        t \in {Absent, File(<<1>>)}, s \in BOOLEAN, c \in {Absent, File(<<1>>)}}

InitScan ==
    /\ fs \in ScanTrees
    /\ folders = << >>
    /\ photos = << >>
    /\ max_workers \in {4}
    /\ tags = << >>
    /\ photo_tags = {}
    /\ mgr = NoCall
    /\ req = NoRequests
    /\ idx = IdxIdle
    /\ pool = [c \in {1} |-> PoolIdle]
    /\ dup = NoDup

\* a scan of the root or of its subdirectory, and the requests to the API
\* that add or delete a folder, with the steps of its worker threads
NextScan ==
    \/ \E p \in {Root, SubDir}, r \in BOOLEAN : ScanDirectory(p, r)
    \/ \E t \in Threads :
          \/ \E path \in {Root, SubDir}, is_monitored \in BOOLEAN :
                ApiCreateFolder(t, path, is_monitored)
          \/ ApiCreateFolderAdd(t)
          \/ ApiCreateFolderReturn(t)
          \/ \E folder_id \in 1..2 : ApiDeleteFolder(t, folder_id)
          \/ \E cascade \in BOOLEAN : ApiDeleteFolderDelete(t, cascade)

SpecScan == InitScan /\ [][NextScan]_vars

\* the files metadata is extracted from: missing, empty, an image of one or
\* two bytes, or bytes that are no image
MetaFiles == {Absent, File(<< >>), File(<<1>>), File(<<1, 1>>), File(<<2>>)}
MissingImage == join("/nonexistent", "image.jpg")

InitMeta ==
    /\ fs \in {Tree(a, b, c # Absent, c) : a \in MetaFiles, b \in MetaFiles, c \in MetaFiles}
    /\ folders = << >>
    /\ photos = << >>
    /\ max_workers \in {4}
    /\ tags = << >>
    /\ photo_tags = {}
    /\ mgr = NoCall
    /\ req = NoRequests
    /\ idx = IdxIdle
    /\ pool = [c \in {1} |-> PoolIdle]
    /\ dup = NoDup

NextMeta == \E p \in ImagePaths \cup {MissingImage, SubDir} : ExtractMetadata(p)

SpecMeta == InitMeta /\ [][NextMeta]_vars

\* the byte strings of up to MaxBytes bytes over two byte values, and the
\* block sizes of the reads: small ones and the default
ByteStrings == UNION {[1..n -> {0, 1}] : n \in 0..MaxBytes}
BlockSizes == (1..MaxBytes) \cup {block_size_default}

\* two files of any bytes
InitHash ==
    /\ \E x \in ByteStrings, y \in ByteStrings :
          fs = Tree(File(x), File(y), FALSE, Absent)
    /\ folders = << >>
    /\ photos = << >>
    /\ max_workers \in {4}
    /\ tags = << >>
    /\ photo_tags = {}
    /\ mgr = NoCall
    /\ req = NoRequests
    /\ idx = IdxIdle
    /\ pool = [c \in {1} |-> PoolIdle]
    /\ dup = NoDup

NextHash ==
    \E service \in BOOLEAN, p \in {FileA, FileB}, block_size \in BlockSizes :
        CalculateFileHash(service, p, block_size)

SpecHash == InitHash /\ [][NextHash]_vars

\* the values of the tags of a GPS block, each in a list of one; the empty
\* list stands for a tag that the block does not hold. Coordinates: three rationals, two rationals, three
\* with a zero denominator, three of which one is a fraction, the empty tuple.
TagValues(tag) ==
    {<< >>} \cup
    CASE tag = 1 -> {<<"N">>, <<"S">>}
      [] tag = 3 -> {<<"E">>, <<"W">>}
      [] tag = 5 -> {<<0>>, <<1>>}
      [] tag \in {2, 4} -> {<< << <<51, 1>>, <<30, 1>>, <<0, 1>> >> >>,
                             << << <<91, 1>>, <<0, 1>> >> >>,
                             << << <<51, 1>>, <<30, 0>>, <<0, 1>> >> >>,
                             << << <<0, 1>>, <<10, 1>>, <<1, 2>> >> >>,
                             << << >> >>}
      [] tag = 6 -> {<< <<100, 1>> >>, << <<100, 0>> >>, << <<100>> >>}

\* the GPS block that holds the chosen value of every tag that is not absent
GpsBlock(choice) ==
    [tag \in {t \in GpsTags : choice[t] # << >>} |-> choice[tag][1]]

NextGps ==
    \E v1 \in TagValues(1), v2 \in TagValues(2), v3 \in TagValues(3),
       v4 \in TagValues(4), v5 \in TagValues(5), v6 \in TagValues(6) :
        ExtractGpsInfo(GpsBlock(<<v1, v2, v3, v4, v5, v6>>))

\* an extractor before any call
InitGps ==
    /\ fs = Tree(Absent, Absent, FALSE, Absent)
    /\ folders = << >>
    /\ photos = << >>
    /\ max_workers \in {4}
    /\ tags = << >>
    /\ photo_tags = {}
    /\ mgr = NoCall
    /\ req = NoRequests
    /\ idx = IdxIdle
    /\ pool = [c \in {1} |-> PoolIdle]
    /\ dup = NoDup

SpecGps == InitGps /\ [][NextGps]_vars

\* the ratings given: one within the range 0-5, and ratings Excess below and
\* above it
Ratings == {0 - Excess, 3, 5 + Excess}

\* a store of two photos with the default rating and one folder
InitRating ==
    /\ fs = LibraryOf(<< <<1>>, <<2>> >>)
    /\ folders = add_folder(<< >>, Root, FALSE).rows
    /\ photos = StoreOf(LibraryOf(<< <<1>>, <<2>> >>), 2)
    /\ max_workers \in {4}
    /\ tags = << >>
    /\ photo_tags = {}
    /\ mgr = NoCall
    /\ req = NoRequests
    /\ idx = IdxIdle
    /\ pool = [c \in {1} |-> PoolIdle]
    /\ dup = NoDup

\* the calls of the tag manager that write a rating; the first thread makes
\* the call on a list. Whether the store checks the range of a rating is not
\* known: it is drawn anew for every call.
NextManager ==
    \/ \E rating \in Ratings, checks \in BOOLEAN :
          \/ \E photo_id \in {1, 3} : SetPhotoRating(photo_id, rating, checks)
          \/ \E photo_ids \in {<< >>, <<1, 2>>, <<3, 2>>} :
                SetPhotosRating(1, photo_ids, rating, checks)
    \/ SetPhotosRatingNext(1)

\* the requests to the API that write a rating or delete Photo rows, and the
\* steps of the threads that serve them: PATCH requests are served by both
\* threads and the action on duplicates by the second
NextApi ==
    \/ \E t \in Threads :
          \/ \E photo_id \in {1, 3}, rating \in {<<5 + Excess>>, << >>} :
                ApiUpdatePhoto(t, photo_id, rating, << >>)
          \/ \E checks \in BOOLEAN : ApiUpdatePhotoUpdate(t, checks)
          \/ ApiUpdatePhotoReturn(t)
    \/ \E t \in {2} :
          \/ \E body \in {<< << >>, "trash">>, << <<1>>, "keep">>, << <<3, 1>>, "trash">>,
                           << <<1>>, "delete">>, << <<1>>, "move">>} :
                ApiPerformDuplicateAction(t, body[1], body[2])
          \/ ApiDuplicateActionLookup(t)
          \/ \E fails \in BOOLEAN : ApiDuplicateActionDelete(t, fails)
          \/ ApiDuplicateActionReturn(t)

NextRating == NextManager \/ NextApi

SpecRating == InitRating /\ [][NextRating]_vars

\* the calls of the tag manager that write a favorite flag: both threads
\* toggle one, the first makes the call on a list; the second serves the
\* PATCH requests with a flag, and a photo is deleted between their steps
NextFavorite ==
    \/ \E t \in Threads :
          \/ \E photo_id \in {1, 3} : TogglePhotoFavorite(t, photo_id)
          \/ TogglePhotoFavoriteUpdate(t)
    \/ \E favorite \in BOOLEAN : SetPhotoFavorite(2, favorite, TRUE)
    \/ \E photo_ids \in {<< >>, <<1, 2>>}, favorite \in BOOLEAN :
          SetPhotosFavorite(1, photo_ids, favorite)
    \/ SetPhotosFavoriteNext(1)
    \/ ApiUpdatePhoto(2, 1, << >>, <<TRUE>>)
    \/ \E checks \in BOOLEAN : ApiUpdatePhotoUpdate(2, checks)
    \/ ApiUpdatePhotoReturn(2)
    \/ \E fails \in BOOLEAN : DeleteDuplicate(1, TRUE, fails)

SpecFavorite == InitRating /\ [][NextFavorite]_vars

\* the names given to the tag manager: strings of up to MaxName characters,
\* each a space or a capital letter, and one name that is lowercase already
Characters == {" ", "A"}
TagNames == UNION {[1..n -> Characters] : n \in 0..MaxName} \cup {<<"a">>}

\* a store that holds one photo and no tag
InitTags ==
    /\ fs = LibraryOf(<< <<1>> >>)
    /\ folders = add_folder(<< >>, Root, FALSE).rows
    /\ photos = StoreOf(LibraryOf(<< <<1>> >>), 1)
    /\ max_workers \in {4}
    /\ tags = << >>
    /\ photo_tags = {}
    /\ mgr = NoCall
    /\ req = NoRequests
    /\ idx = IdxIdle
    /\ pool = [c \in {1} |-> PoolIdle]
    /\ dup = NoDup

\* the calls of the tag manager on tags and the tag requests to the API: the
\* first thread makes the calls with every name, the second creates one tag
\* by a call or a request and serves the other requests, which rename a tag
\* to a name with a capital letter and to the empty name
NextTags ==
    \/ \E name \in TagNames : CreateTag(1, name, << >>)
    \/ CreateTag(2, <<"A">>, << >>)
    \/ ApiCreateTag(2, <<"A">>, << >>)
    \/ \E t \in Threads : CreateTagAdd(t) \/ CreateTagGet(t)
    \/ \E tag_id \in {1, 2}, name \in {<<"A">>, <<" ">>} : UpdateTag(tag_id, <<name>>, << >>)
    \/ \E tag_id \in {2, MaxName + 2} : UpdateTag(tag_id, << >>, <<1>>)
    \/ \E name \in {<<"A">>, <<" ">>} : AddTagByNameToPhoto(1, 1, name)
    \/ AddTagByNameToPhoto(1, 2, <<"A">>)
    \/ AddTagByNameAdd(1)
    \/ AddTagByNameLink(1)
    \/ \E tag_id \in {1, MaxTags + 1} : DeleteTag(tag_id)
    \/ \E t \in {2} :
          \/ \E tag_id \in {1, MaxTags + 1}, name \in {<<"A">>, << >>} :
                ApiUpdateTag(t, tag_id, name, << >>)
          \/ ApiUpdateTagUpdate(t)
          \/ ApiUpdateTagReturn(t)
          \/ \E tag_id \in {2, MaxTags + 1} : ApiDeleteTag(t, tag_id)
          \/ ApiDeleteTagDelete(t)

SpecTags == InitTags /\ [][NextTags]_vars

\* a store that holds two photos and two tags
InitLinks ==
    /\ fs = LibraryOf(<< <<1>>, <<2>> >>)
    /\ folders = add_folder(<< >>, Root, FALSE).rows
    /\ photos = StoreOf(LibraryOf(<< <<1>>, <<2>> >>), 2)
    /\ max_workers \in {4}
    /\ tags = add_tag(add_tag(<< >>, <<"a">>, << >>).rows, <<"a", "a">>, << >>).rows
    /\ photo_tags = {}
    /\ mgr = NoCall
    /\ req = NoRequests
    /\ idx = IdxIdle
    /\ pool = [c \in {1} |-> PoolIdle]
    /\ dup = NoDup

\* the calls of the tag manager on the tags of a photo, which the first
\* thread makes, and the requests to the API on them, which the second
\* serves; a tag and a photo are deleted between their steps
NextLinks ==
    \/ \E photo_id \in {1, 3} : AddTagToPhoto(photo_id, 2)
    \/ RemoveTagFromPhoto(1, 2)
    \/ DeleteTag(1)
    \/ \E fails \in BOOLEAN : DeleteDuplicate(1, TRUE, fails)
    \/ \E t \in {1} :
          \/ \E photo_ids \in {<< >>, <<1, 2>>} : AddTagToPhotos(t, photo_ids, 1)
          \/ AddTagToPhotosNext(t)
          \/ \E tag_ids \in {<< >>, <<1, 2>>} : AddTagsToPhoto(t, 1, tag_ids)
          \/ AddTagsToPhotoNext(t)
          \/ \E photo_ids \in {<< >>, <<1, 2>>} : RemoveTagFromPhotos(t, photo_ids, 1)
          \/ RemoveTagFromPhotosNext(t)
    \/ \E t \in {2} :
          \/ \E photo_id \in {1, 3} : ApiTagOfPhoto(t, "add_tag_to_photo", photo_id, 1)
          \/ ApiTagOfPhoto(t, "remove_tag_from_photo", 1, 1)
          \/ ApiTagOfPhotoTag(t)
          \/ ApiAddTagToPhoto(t)
          \/ ApiRemoveTagFromPhoto(t)

SpecLinks == InitLinks /\ [][NextLinks]_vars

\* updatePhoto: the user marks a photo as a favorite (id 0: nobody)
mark_favorite(ph, id) ==
    IF id \in PhotoIds(ph) THEN [ph EXCEPT ![id].is_favorite = <<1>>] ELSE ph

\* a row that was added without a size, as the database tests add theirs
\* (add_photo(path, folder_id, file_hash=...)): its file_size is NULL (id 0:
\* no row)
without_size(ph, id) ==
    IF id \in PhotoIds(ph)
    THEN [ph EXCEPT ![id] = [c \in (DOMAIN ph[id]) \ {"file_size"} |-> ph[id][c]]]
    ELSE ph

\* a store indexed from a library of up to MaxLibrary files, in which at most
\* one photo is marked as a favorite and at most one has no size
InitStats ==
    /\ \E n \in 0..MaxLibrary : \E contents \in [1..n -> DupContents] :
       \E favorite \in 0..n, unsized \in 0..n :
          /\ fs = LibraryOf(contents)
          /\ photos = without_size(mark_favorite(StoreOf(LibraryOf(contents), n),
                                                 favorite), unsized)
    /\ folders = add_folder(<< >>, Root, FALSE).rows
    /\ max_workers \in {4}
    /\ tags = << >>
    /\ photo_tags = {}
    /\ mgr = NoCall
    /\ req = NoRequests
    /\ idx = IdxIdle
    /\ pool = [c \in {1} |-> PoolIdle]
    /\ dup = NoDup

NextStats == GetDuplicateStatistics

SpecStats == InitStats /\ [][NextStats]_vars

\* the rows of a store with two folders: each photo lies in folder 1 or 2 and
\* has one of two hash values, the empty hash, or no hash at all (<< >>)
RowProfiles ==
    [folder_id : {1, 2},
     file_hash : {<<hexdigest(<<1>>)>>, <<hexdigest(<<1, 1>>)>>, << << >> >>, << >>}]

\* a row that was added without a hash: its file_hash is NULL
without_hash(ph, id) ==
    [ph EXCEPT ![id] = [c \in (DOMAIN ph[id]) \ {"file_hash"} |-> ph[id][c]]]

RECURSIVE RowsOf(_)
\* the Photo rows after add_photo was called for each profile of a list
RowsOf(l) ==
    IF l = << >> THEN << >>
    ELSE LET n == Len(l)
             rows == RowsOf(SubSeq(l, 1, n - 1))
             file_hash == IF l[n].file_hash = << >> THEN << >> ELSE l[n].file_hash[1]
             r == add_photo(rows, PhotoPath(n), l[n].folder_id,
                            [file_hash |-> file_hash, size |-> 1])
         IN  IF l[n].file_hash = << >> THEN without_hash(r.rows, n) ELSE r.rows

\* a store of up to MaxLibrary photos in two folders
InitFolder ==
    /\ fs = Tree(Absent, Absent, TRUE, Absent)
    /\ folders = add_folder(add_folder(<< >>, Root, FALSE).rows, SubDir, FALSE).rows
    /\ \E n \in 0..MaxLibrary : \E l \in [1..n -> RowProfiles] : photos = RowsOf(l)
    /\ max_workers \in {4}
    /\ tags = << >>
    /\ photo_tags = {}
    /\ mgr = NoCall
    /\ req = NoRequests
    /\ idx = IdxIdle
    /\ pool = [c \in {1} |-> PoolIdle]
    /\ dup = NoDup

NextFolder == \E folder_id \in 1..3 : FindDuplicatesInFolder(folder_id)

SpecFolder == InitFolder /\ [][NextFolder]_vars

\* the contents of the files of a library with at most two hash values
TwoContents == {<< >>, <<1>>}

\* a store indexed from a library of up to MaxLibrary files
InitFind ==
    /\ \E n \in 0..MaxLibrary : \E contents \in [1..n -> TwoContents] :
          /\ fs = LibraryOf(contents)
          /\ photos = StoreOf(LibraryOf(contents), n)
    /\ folders = add_folder(<< >>, Root, FALSE).rows
    /\ max_workers \in {4}
    /\ tags = << >>
    /\ photo_tags = {}
    /\ mgr = NoCall
    /\ req = NoRequests
    /\ idx = IdxIdle
    /\ pool = [c \in {1} |-> PoolIdle]
    /\ dup = NoDup

NextFind ==
    \/ FindStart
    \/ FindResolve
    \/ FindReturn
    \/ \E id \in 1..(MaxLibrary + 1) : PhotoDeleted(id)

SpecFind == InitFind /\ [][NextFind]_vars

\* the rows of a library that was indexed as two folders: the photos after
\* the first `first` ones belong to folder 2
filed(ph, first) ==
    [i \in 1..Len(ph) |-> IF i > first THEN [ph[i] EXCEPT !.folder_id = 2] ELSE ph[i]]

\* a store indexed from a library of up to MaxLibrary files, all in folder 1,
\* all in folder 2, or the first two in folder 1 and the others in folder 2,
\* in which the user has marked at most one photo as a favorite
InitCli ==
    /\ \E n \in 0..MaxLibrary : \E contents \in [1..n -> DupContents] :
       \E favorite \in 0..n, first \in {0, 2, n} :
          /\ fs = LibraryOf(contents)
          /\ photos = filed(mark_favorite(StoreOf(LibraryOf(contents), n), favorite), first)
    /\ folders = add_folder(add_folder(<< >>, Root, FALSE).rows, SubDir, FALSE).rows
    /\ max_workers \in {4}
    /\ tags = << >>
    /\ photo_tags = {}
    /\ mgr = NoCall
    /\ req = NoRequests
    /\ idx = IdxIdle
    /\ pool = [c \in {1} |-> PoolIdle]
    /\ dup = NoDup

NextCli ==
    \/ \E id \in 1..(MaxLibrary + 1), permanent \in BOOLEAN, fails \in BOOLEAN :
          DeleteDuplicate(id, permanent, fails)
    \/ \E folder_id \in {<< >>, <<1>>, <<2>>}, auto_delete \in BOOLEAN, permanent \in BOOLEAN :
          DuplicatesCommand(folder_id, auto_delete, permanent)
    \/ CommandFind
    \/ CommandStatistics
    \/ \E fails \in BOOLEAN : CommandDelete(fails)

SpecCli == InitCli /\ [][NextCli]_vars

\* a photo of a duplicate group without dimensions, EXIF data, rating or mark
PlainPhoto ==
    [id |-> 0, width |-> << >>, height |-> << >>, date_taken |-> << >>,
     camera_make |-> << >>, camera_model |-> << >>, iso |-> << >>,
     aperture |-> << >>, exposure_time |-> << >>, rating |-> <<0>>,
     is_favorite |-> <<0>>]

\* the same photo with its dimensions
SizedPhoto == [PlainPhoto EXCEPT !.width = <<3>>, !.height = <<5>>]

\* the photos a duplicate group is drawn from: each differs from PlainPhoto or
\* from SizedPhoto in the columns of one term of the score
PhotoProfiles ==
    { PlainPhoto,
      SizedPhoto,
      [PlainPhoto EXCEPT !.width = <<3>>],
      [PlainPhoto EXCEPT !.is_favorite = <<1>>],
      [SizedPhoto EXCEPT !.is_favorite = <<1>>],
      [PlainPhoto EXCEPT !.date_taken = <<"2020-01-01">>],
      [PlainPhoto EXCEPT !.date_taken = <<"">>],
      [PlainPhoto EXCEPT !.camera_make = <<"Canon">>, !.camera_model = <<"EOS">>],
      [PlainPhoto EXCEPT !.camera_make = <<"Canon">>],
      [PlainPhoto EXCEPT !.iso = <<100>>],
      [PlainPhoto EXCEPT !.exposure_time = <<1>>],
      [PlainPhoto EXCEPT !.rating = <<1>>],
      [PlainPhoto EXCEPT !.rating = << >>] }

\* the duplicate group of a list of photos; the photo at position k has id k
DuplicateGroup(l) ==
    [file_hash |-> hexdigest(<<1>>),
     photos |-> [k \in 1..Len(l) |-> [l[k] EXCEPT !.id = k]]]

\* a duplicate group of up to MaxGroup photos is at hand
InitKeep ==
    /\ fs \in {Tree(Absent, Absent, FALSE, Absent)}
    /\ folders = << >>
    /\ photos = << >>
    /\ max_workers \in {4}
    /\ tags = << >>
    /\ photo_tags = {}
    /\ mgr = NoCall
    /\ req = NoRequests
    /\ idx = IdxIdle
    /\ pool = [c \in {1} |-> PoolIdle]
    /\ \E n \in 1..MaxGroup : \E l \in [1..n -> PhotoProfiles] :
          dup = [NoDup EXCEPT !.group = DuplicateGroup(l)]

NextKeep == SuggestDuplicatesToKeep

SpecKeep == InitKeep /\ [][NextKeep]_vars

(***************************************************************************)
(* Properties of index_folder and of the worker pool                       *)
(***************************************************************************)
IndexFolderReturned == idx.pc \in {"DONE", "FAILED"}

RowCount(ph, path) == Cardinality({i \in PhotoIds(ph) : ph[i].file_path = path})

\* the image files a scan of the call's tree finds
ScannedImages(f, path, recursive) ==
    LET files == scan_directory(f, Sorted(f), path, recursive).files
    IN  {files[i].path : i \in {j \in 1..Len(files) : files[j].is_image}}

\* the subdirectories of the call's tree that hold at least one image
ImageSubdirs(f, path, recursive) ==
    LET dirs == scan_directory(f, Sorted(f), path, recursive).directories
    IN  {dirs[i].path : i \in {j \in 1..Len(dirs) :
            ScannedImages(f, dirs[j].path, FALSE) # {}}}

\* C1: indexing is idempotent. No two Photo rows ever have the same file_path;
\* an index_folder call on a folder that an earlier index_folder call has
\* registered returns photos_added = 0 and leaves the Photo rows as they were;
\* and the worker pool, run on paths that are all in the store, reports 0 added
\* and leaves the Photo rows as they were.
C1_Idempotent ==
    /\ \A i, j \in PhotoIds(photos) :
          i # j => photos[i].file_path # photos[j].file_path
    /\ (IndexFolderReturned /\ idx.again) =>
          (idx.ret.photos_added = 0 /\ photos = idx.before)
    /\ \A c \in DOMAIN pool :
          (/\ pool[c].pc = "returned"
           /\ \A i \in Tasks(c) : pool[c].paths[i] \in PathsOf(pool[c].before))
          => (pool[c].ret = 0 /\ photos = pool[c].before)

\* a second index_folder call on the same folder has returned, on a store that
\* holds photos
C1_Witness == IndexFolderReturned /\ idx.again /\ photos # << >>

\* the tasks of the calls in progress that work on this path
TasksOn(path) ==
    {t \in (DOMAIN pool) \X (1..MaxBatch) :
        t[2] \in Tasks(t[1]) /\ pool[t[1]].paths[t[2]] = path}
TaskState(t) == pool[t[1]].task[t[2]]

\* C2: workers that process the same file_path, in one call or in two
\* concurrent calls: at most one of them reports the photo as added; once they
\* all have ended without an I/O failure exactly one has, and the store holds
\* exactly one row for the path; a collision never makes the call raise (a call
\* raises only when an existence check raised).
C2_OneWinner ==
    /\ \A path \in ImagePaths :
          /\ Cardinality({t \in TasksOn(path) : process_image_returns(TaskState(t))}) <= 1
          /\ RowCount(photos, path) <= 1
          /\ (/\ TasksOn(path) # {}
              /\ \A t \in TasksOn(path) : TaskState(t) \in {"added", "dup", "exists"})
             => /\ Cardinality({t \in TasksOn(path) : TaskState(t) = "added"}) = 1
                /\ RowCount(photos, path) = 1
    /\ \A c \in DOMAIN pool :
          pool[c].pc \in {"unwinding", "raised"}
          => \E i \in Tasks(c) : pool[c].task[i] = "raised"

\* two calls have raced on one path past their existence checks: one inserted
\* the row, the other ran into the uniqueness constraint
C2_Witness ==
    \E i \in Tasks(1), j \in Tasks(2) :
        /\ pool[1].paths[i] = pool[2].paths[j]
        /\ {pool[1].task[i], pool[2].task[j]} = {"added", "dup"}
        /\ pool[1].pc = "returned" /\ pool[2].pc = "returned"

\* C3: an exception in any per-file step, the existence check included, only
\* makes that file count as not added: the call returns, with every task
\* processed and photos_added equal to the number of photos inserted.
C3_PerFileIsolation ==
    \A c \in DOMAIN pool :
        pool[c].pc \in {"unwinding", "raised", "returned"}
        => /\ pool[c].pc = "returned"
           /\ \A i \in Tasks(c) : pool[c].task[i] \in TaskEnded
           /\ pool[c].ret = Len(photos) - Len(pool[c].before)

\* C4: index_folder on a root that is missing or unreadable returns
\* (0, 0, 0.0) and registers no folder.
C4_ScanFailure ==
    (IndexFolderReturned /\ (~exists(fs, idx.path) \/ ~Lookup(fs, idx.path).readable))
    => /\ idx.ret = [folders_added |-> 0, photos_added |-> 0, elapsed |-> "0.0"]
       /\ folders = idx.folders_before

\* C5: index_folder on a store that holds none of the tree's paths returns
\* photos_added = the number of image files scanned and leaves one Photo row per
\* image file, for every max_workers.
C5_AllIndexed ==
    LET images == ScannedImages(fs, idx.path, idx.recursive)
    IN  (IndexFolderReturned /\ images \cap PathsOf(idx.before) = {})
        => /\ idx.ret.photos_added = Cardinality(images)
           /\ \A path \in images : RowCount(photos, path) = 1

\* C6: every one of the repeated recursive index_folder calls on a tree returns
\* photos_added = the number of image files in the tree.
C6_SameCountEveryCall ==
    (IndexFolderReturned /\ idx.recursive)
    => idx.ret.photos_added = Cardinality(ScannedImages(fs, idx.path, TRUE))

\* C7: index_folder on a directory returns folders_added = 1 when not recursive,
\* and 1 + the number of subdirectories that hold images when recursive.
C7_FoldersAdded ==
    (IndexFolderReturned /\ isdir(fs, idx.path) /\ Lookup(fs, idx.path).readable)
    => idx.ret.folders_added =
          IF idx.recursive
          THEN 1 + Cardinality(ImageSubdirs(fs, idx.path, TRUE))
          ELSE 1

(***************************************************************************)
(* Properties of the duplicate detection service                           *)
(***************************************************************************)
\* the ids of the photos of a group
MemberIds(group) == {group.photos[k].id : k \in 1..Len(group.photos)}

\* the rows whose file holds the same bytes as the file of row i
SameBytes(i) ==
    {j \in PhotoIds(photos) :
        Lookup(fs, photos[j].file_path).bytes = Lookup(fs, photos[i].file_path).bytes}

\* the N photos with identical bytes: the rows that share their bytes
Identical == {i \in PhotoIds(photos) : Cardinality(SameBytes(i)) >= 2}

\* the other photos have pairwise distinct bytes: one content is shared at most
IdenticalAndDistinct == \A i, j \in Identical : j \in SameBytes(i)

\* Grouping of the rows a store holds: when the rows are N rows of identical
\* bytes and M rows of pairwise distinct other bytes, find_exact_duplicates
\* returns no group when N < 2 and exactly one group when N >= 2; the group
\* holds exactly the N identical rows, each once, every member carries the
\* group's file_hash, and the statistics report total_duplicates = N - 1
DedupGroupingOfStore ==
    (dup.pc = "found" /\ IdenticalAndDistinct) =>
        IF Identical = {}
        THEN /\ dup.groups = << >>
             /\ statistics(dup.groups, NoStatistics).total_duplicates = 0
        ELSE /\ Len(dup.groups) = 1
             /\ MemberIds(dup.groups[1]) = Identical
             /\ Len(dup.groups[1].photos) = Cardinality(Identical)
             /\ \A k \in 1..Len(dup.groups[1].photos) :
                   dup.groups[1].photos[k].file_hash = dup.groups[1].file_hash
             /\ statistics(dup.groups, NoStatistics).total_duplicates
                    = Cardinality(Identical) - 1
             /\ get_duplicate_statistics(photos).total_duplicates
                    = Cardinality(Identical) - 1

\* two identical rows and two rows of distinct other bytes were searched
DedupGroupingCase ==
    /\ dup.pc = "found"
    /\ IdenticalAndDistinct
    /\ Cardinality(Identical) = 2
    /\ Len(photos) = 4
    /\ Len(dup.groups) = 1

\* the image files of the indexed tree that share their bytes with another one
IdenticalFiles(F) ==
    {p \in F : \E q \in F \ {p} : Lookup(fs, q).bytes = Lookup(fs, p).bytes}

\* C8: for a store indexed from N files with identical bytes and M files with
\* pairwise distinct other bytes (index_folder has returned on a tree holding
\* just these image files, and the store holds no other file),
\* find_exact_duplicates returns no group when N < 2 and exactly one group when
\* N >= 2; the group holds exactly the photos of the N identical files, every
\* member carries the group's file_hash, and the statistics report
\* total_duplicates = N - 1
C8_IndexedDedup ==
    LET F == ScannedImages(fs, idx.path, idx.recursive)
        Same == IdenticalFiles(F)
    IN  (/\ dup.pc = "found"
         /\ IndexFolderReturned
         /\ PathsOf(photos) \subseteq F
         /\ \A p, q \in Same : Lookup(fs, q).bytes = Lookup(fs, p).bytes) =>
            IF Same = {}
            THEN dup.groups = << >>
            ELSE /\ Len(dup.groups) = 1
                 /\ {dup.groups[1].photos[k].file_path :
                         k \in 1..Len(dup.groups[1].photos)} = Same
                 /\ Len(dup.groups[1].photos) = Cardinality(Same)
                 /\ \A k \in 1..Len(dup.groups[1].photos) :
                       dup.groups[1].photos[k].file_hash = dup.groups[1].file_hash
                 /\ statistics(dup.groups, NoStatistics).total_duplicates
                        = Cardinality(Same) - 1

\* the largest member of a finite set of naturals, 0 for the empty set
Largest(S) == IF S = {} THEN 0 ELSE CHOOSE m \in S : \A x \in S : x <= m

\* C9: get_duplicate_statistics returns total_groups = the number of groups
\* find_exact_duplicates returns, total_duplicates = the sum over the groups of
\* (group size - 1), which is the number of grouped photos less the number of
\* groups, and largest_group_size = the largest group size, 0 without a group
C9_Statistics ==
    dup.pc = "statistics" =>
        LET groups == find_exact_duplicates(photos)
            Grouped == UNION {MemberIds(groups[g]) : g \in 1..Len(groups)}
        IN  /\ dup.stats.total_groups = Len(groups)
            /\ dup.stats.total_duplicates = Cardinality(Grouped) - Len(groups)
            /\ dup.stats.largest_group_size
                   = Largest({Len(groups[g].photos) : g \in 1..Len(groups)})

\* statistics were taken of a store with two groups of different sizes
C9_Witness ==
    /\ dup.pc = "statistics"
    /\ dup.stats.total_groups = 2
    /\ dup.stats.total_duplicates = 3
    /\ dup.stats.largest_group_size = 3

\* the score the ranking is stated with
Has(value) == value # << >> /\ value[1] # 0
HasText(value) == value # << >> /\ value[1] # ""
Points(cond, n) == IF cond THEN n ELSE 0
RankingScore(photo) ==
    (IF Has(photo.width) /\ Has(photo.height) THEN photo.width[1] * photo.height[1] ELSE 0)
    + Points(HasText(photo.date_taken), 10)
    + Points(HasText(photo.camera_make) /\ HasText(photo.camera_model), 5)
    + Points(Has(photo.iso) \/ Has(photo.aperture) \/ Has(photo.exposure_time), 5)
    + (IF Has(photo.rating) THEN 20 * photo.rating[1] ELSE 0)
    + Points(Has(photo.is_favorite), 50)

\* the position of a photo id in the suggested order
Rank(id) == CHOOSE m \in 1..Len(dup.ids) : dup.ids[m] = id

\* C10: suggest_duplicates_to_keep returns every photo id of the group exactly
\* once, ordered from highest to lowest score, photos of equal score in their
\* original group order; of two photos that differ in is_favorite only, the
\* favorite comes strictly first
C10_SuggestOrder ==
    dup.pc = "suggested" =>
        LET group_photos == dup.group.photos
            Positions == 1..Len(group_photos)
        IN  /\ Len(dup.ids) = Len(group_photos)
            /\ \A k \in Positions :
                  Cardinality({m \in 1..Len(dup.ids) : dup.ids[m] = group_photos[k].id}) = 1
            /\ \A j, k \in Positions :
                  /\ RankingScore(group_photos[j]) > RankingScore(group_photos[k])
                        => Rank(group_photos[j].id) < Rank(group_photos[k].id)
                  /\ (RankingScore(group_photos[j]) = RankingScore(group_photos[k]) /\ j < k)
                        => Rank(group_photos[j].id) < Rank(group_photos[k].id)
                  /\ (/\ Has(group_photos[j].is_favorite)
                      /\ ~Has(group_photos[k].is_favorite)
                      /\ [group_photos[j] EXCEPT !.id = 0, !.is_favorite = << >>]
                           = [group_photos[k] EXCEPT !.id = 0, !.is_favorite = << >>])
                        => Rank(group_photos[j].id) < Rank(group_photos[k].id)

\* a group of three was ranked: a favorite that came last in the group is first,
\* ahead of its otherwise identical twin and of a photo of the twin's score
C10_Witness ==
    /\ dup.pc = "suggested"
    /\ Len(dup.group.photos) = 3
    /\ dup.ids = <<3, 1, 2>>
    /\ RankingScore(dup.group.photos[1]) = RankingScore(dup.group.photos[2])
    /\ dup.group.photos[1] # [dup.group.photos[2] EXCEPT !.id = 1]
    /\ [dup.group.photos[3] EXCEPT !.id = 1, !.is_favorite = <<0>>] = dup.group.photos[1]
    /\ Has(dup.group.photos[3].is_favorite)

(***************************************************************************)
(* Properties of delete_duplicate and of the duplicates command            *)
(***************************************************************************)
\* C11: delete_duplicate(id, permanent=False) invokes only the store's
\* move_to_trash(id), delete_duplicate(id, permanent=True) only its
\* permanently_delete_photo(id); it returns the result of that operation, and
\* without permanent no row is deleted
C11_DeleteDelegates ==
    dup.pc = "deleted" =>
        /\ Len(dup.calls) = 1
        /\ dup.calls[1].id = dup.args.photo_id
        /\ dup.calls[1].op = IF dup.args.permanent THEN "permanently_delete_photo"
                             ELSE "move_to_trash"
        /\ dup.ret = dup.calls[1].ok
        /\ ~dup.args.permanent => \A i \in 1..Len(photos) : photos[i].status # "deleted"

\* a photo was moved to the trash: its row is trashed, its bytes are kept
C11_Witness ==
    /\ dup.pc = "deleted"
    /\ ~dup.args.permanent
    /\ dup.ret
    /\ photos[dup.args.photo_id].status = "trashed"
    /\ exists(fs, TrashPath(photos[dup.args.photo_id].file_path))

\* the ids the command has submitted to delete_duplicate
Submitted == {dup.calls[c].id : c \in 1..Len(dup.calls)}

InCommand == dup.pc \in {"cmd_find", "cmd_stats", "cmd_delete", "cmd_done"}

\* C12: the duplicates command calls delete_duplicate only when auto_delete is
\* set; it never submits the first id suggest_duplicates_to_keep returns for a
\* reported group, each other member is submitted once by the end of the
\* command, and at least one photo of every reported group is still active
C12_KeepsOnePerGroup ==
    InCommand =>
        /\ ~dup.args.auto_delete => dup.calls = << >>
        /\ \A g \in 1..Len(dup.groups) :
              LET keep_id == suggest_duplicates_to_keep(dup.groups[g])[1]
              IN  /\ keep_id \notin Submitted
                  /\ photos[keep_id].status = "active"
                  /\ (dup.pc = "cmd_done" /\ dup.args.auto_delete) =>
                        \A m \in MemberIds(dup.groups[g]) \ {keep_id} :
                           Cardinality({c \in 1..Len(dup.calls) : dup.calls[c].id = m}) = 1
        /\ Submitted \subseteq UNION {MemberIds(dup.groups[g]) : g \in 1..Len(dup.groups)}

\* the command has gone through a group of three whose favorite came last: the
\* other two were submitted, the favorite was kept
C12_Witness ==
    /\ dup.pc = "cmd_done"
    /\ dup.args.auto_delete
    /\ Len(dup.groups) = 1
    /\ Len(dup.groups[1].photos) = 3
    /\ Submitted = {1, 2}
    /\ photos[3].status = "active"
    /\ photos[1].status # "active"

(***************************************************************************)
(* Properties of refresh_index                                             *)
(***************************************************************************)
RefreshEnded == idx.pc \in {"REFRESHED", "RAISED"}

\* the folders of the store at the call that are monitored and exist on disk
LiveMonitored ==
    {i \in FolderIds(idx.folders_before) :
        idx.folders_before[i].is_monitored /\ exists(fs, idx.folders_before[i].path)}

\* the image files that lie directly in a folder
DirectImages(path) == ScannedImages(fs, path, FALSE)

\* C13: refresh_index processes exactly the monitored folders whose path
\* exists: it returns, folders_updated is their number, each of them has a new
\* date_scanned, every other folder row is as it was, and when no monitored
\* folder exists the result is folders_updated = 0 and photos_added = 0
C13_RefreshLiveMonitored ==
    RefreshEnded =>
        /\ idx.pc = "REFRESHED"
        /\ idx.ret.folders_updated = Cardinality(LiveMonitored)
        /\ \A i \in FolderIds(idx.folders_before) :
              IF i \in LiveMonitored
              THEN folders[i].date_scanned # idx.folders_before[i].date_scanned
              ELSE folders[i] = idx.folders_before[i]
        /\ LiveMonitored = {} => idx.ret.folders_updated = 0 /\ idx.ret.photos_added = 0

\* C14: refresh_index adds a Photo row for exactly the image files that lie
\* directly in a live monitored folder and are not yet a Photo row, and returns
\* their number as photos_added; the rows it found stay as they were
C14_RefreshAddsDelta ==
    RefreshEnded =>
        LET Delta == UNION {DirectImages(idx.folders_before[i].path) : i \in LiveMonitored}
                        \ PathsOf(idx.before)
        IN  /\ idx.pc = "REFRESHED"
            /\ PathsOf(photos) = PathsOf(idx.before) \cup Delta
            /\ idx.ret.photos_added = Cardinality(Delta)
            /\ SubSeq(photos, 1, Len(idx.before)) = idx.before

\* C15: no step of index_folder or refresh_index deletes a Folder row or a
\* Photo row: every row of the store is there after the step, with its path,
\* whatever has disappeared from disk
C15_RowsOnlyGrow ==
    [][ /\ \A i \in FolderIds(folders) :
             i \in FolderIds(folders') /\ folders'[i].path = folders[i].path
        /\ \A i \in PhotoIds(photos) :
             i \in PhotoIds(photos') /\ photos'[i].file_path = photos[i].file_path ]_vars

\* a refresh has skipped a monitored folder that is gone from disk, and the
\* store still holds its row and the rows of its photos
C15_Witness ==
    /\ idx.pc = "REFRESHED"
    /\ ~exists(fs, Root)
    /\ \E i \in FolderIds(folders) : folders[i].path = Root /\ folders[i].is_monitored
    /\ FileA \in PathsOf(photos)

\* C20: after index_folder(path, monitor=m) has returned, the Folder row of
\* path has is_monitored = m, also when the row existed with the other flag
\* value, and _get_monitored_folders returns the folder exactly when m is true
C20_MonitorFlag ==
    IndexFolderReturned =>
        LET row == get_folder_by_path(folders, idx.path)
            monitored_folders == get_monitored_folders(folders)
        IN  /\ row # << >>
            /\ row[1].is_monitored = idx.monitor
            /\ idx.monitor <=> \E k \in 1..Len(monitored_folders) :
                                  monitored_folders[k].path = idx.path

\* a folder that was monitored was indexed again with monitor=False and the
\* call returned its counts
C20_Witness ==
    /\ idx.pc = "DONE"
    /\ idx.again
    /\ ~idx.monitor
    /\ get_folder_by_path(idx.folders_before, idx.path)[1].is_monitored
    /\ get_monitored_folders(folders) = << >>

(***************************************************************************)
(* Properties of the scanner                                               *)
(***************************************************************************)
\* the directories a scan of a path goes through
ScannedDirs(path, recursive) ==
    IF ~isdir(fs, path) \/ ~Lookup(fs, path).readable THEN {}
    ELSE {path} \cup (IF recursive
                      THEN {d \in Below(path) \ {path} : isdir(fs, d) /\ Lookup(fs, d).readable}
                      ELSE {})

\* the names of the image files that lie directly in a directory
ImageNames(path) ==
    {NamesOf(path)[k] : k \in {j \in 1..Len(NamesOf(path)) :
        /\ Lookup(fs, join(path, NamesOf(path)[j])).kind = "file"
        /\ is_supported_image(NamesOf(path)[j])}}

\* C16: scan_directory on a path that does not exist, is not a directory or
\* cannot be read, and on a directory that holds no image, returns the empty
\* mapping; it never raises
C16_EmptyMapping ==
    (/\ idx.pc = "SCANNED"
     /\ \A d \in ScannedDirs(idx.path, idx.recursive) : ImageNames(d) = {}) =>
        DOMAIN idx.scan = {}

\* C17: scan_directory returns a mapping from directory path to the image
\* files of that directory: one entry per scanned directory that holds
\* images (the root only without recursive), with exactly the image files
\* that lie directly in it, each once, and no other file
C17_DirectoryMapping ==
    idx.pc = "SCANNED" =>
        /\ DOMAIN idx.scan = {d \in ScannedDirs(idx.path, idx.recursive) : ImageNames(d) # {}}
        /\ \A d \in DOMAIN idx.scan :
              /\ {idx.scan[d][k] : k \in 1..Len(idx.scan[d])} = ImageNames(d)
              /\ Len(idx.scan[d]) = Cardinality(ImageNames(d))

(***************************************************************************)
(* Properties of the metadata extractor and of the content hash            *)
(***************************************************************************)
\* the file at a path can be opened and parsed as an image
Parsable(path) ==
    /\ Lookup(fs, path).kind = "file"
    /\ Lookup(fs, path).bytes # << >>
    /\ Head(Lookup(fs, path).bytes) = 1

\* C18: extract_metadata returns, for every path, a record that holds the
\* file name, file_name being the base name of the path; when the image
\* cannot be opened or parsed the record holds an error field and no width,
\* height or format
C18_MetadataSoftFail ==
    idx.pc = "EXTRACTED" =>
        /\ "file_name" \in DOMAIN idx.ret
        /\ idx.ret.file_name = basename(idx.path)
        /\ ~Parsable(idx.path) =>
              /\ "error" \in DOMAIN idx.ret
              /\ DOMAIN idx.ret \cap {"width", "height", "format"} = {}

\* C19: the content hash of a file depends only on its bytes: whatever the
\* block size and whichever of the two hash functions is called, the digest
\* is the SHA-256 digest of the whole content in one piece, 64 hexadecimal
\* characters long; the call before, on the same file or on a file of equal
\* bytes at another path, returned the same digest, and a file of other bytes
\* a different one
C19_HashOfBytes ==
    idx.pc = "HASHED" =>
        /\ idx.ret.digest = hexdigest(Lookup(fs, idx.path).bytes)
        /\ hex_length(idx.ret.digest) = 64
        /\ \A k \in 1..Len(idx.before) :
              idx.before[k].digest = idx.ret.digest
                 <=> Lookup(fs, idx.before[k].path).bytes = Lookup(fs, idx.path).bytes

\* two files of the same three bytes at different paths were hashed one after
\* the other and got the same digest
C19_Witness ==
    /\ idx.pc = "HASHED"
    /\ idx.before # << >>
    /\ idx.before[1].path # idx.path
    /\ idx.before[1].digest = idx.ret.digest
    /\ Len(Lookup(fs, idx.path).bytes) = 3

(***************************************************************************)
(* Properties of a whole index_folder run                                  *)
(***************************************************************************)
\* an index_folder call is between its first line and its return
IndexFolderRunning == idx.pc \in {"scan", "register", "loop"}

\* line 53 has returned: the run has the id of its root folder
Registered == idx.folder_id # 0

\* the directory of the call can be read and holds an entry, a file of any
\* kind or a directory: one of the two lists of the scan is not empty
Listed ==
    /\ isdir(fs, idx.path)
    /\ Lookup(fs, idx.path).readable
    /\ \E n \in Nodes \ {idx.path} : Parent(n) = idx.path /\ exists(fs, n)

\* the run has handed image files to _process_images, where the workers
\* extract the metadata, hash the file and insert the row
Processed == \E c \in DOMAIN pool : pool[c].pc # "idle"

\* the phases of a run follow each other in one order
RunOrder ==
    /\ idx.pc = "scan" => idx'.pc \in {"scan", "register"}
    /\ idx.pc = "register" => idx'.pc \in {"register", "loop", "FAILED"}
    /\ idx.pc = "loop" => idx'.pc \in {"loop", "DONE", "FAILED"}
    /\ idx'.pc \in {"DONE", "FAILED"} => idx.pc \in {"register", "loop", idx'.pc}

\* C21: every index_folder run passes from scanning to extraction and hashing
\* to persisting and ends in exactly one of DONE or FAILED: the phases follow
\* in one order; a run ends in FAILED, returning exactly (0, 0, 0.0), when an
\* exception escaped the registration or the loop (the scan raises none), and
\* otherwise in DONE, returning the accumulated folders_added and
\* photos_added and the elapsed time (the difference of two clock readings,
\* not the constant 0.0); a run whose scan found image files and whose folder
\* was registered has handed them to extraction, hashing and persisting when
\* it ends; no run stays in an intermediate state.
C21_RunEnds ==
    /\ [][RunOrder]_vars
    /\ [](idx.pc = "FAILED" =>
            /\ ~Registered \/ Listed
            /\ idx.ret = [folders_added |-> 0, photos_added |-> 0, elapsed |-> "0.0"])
    /\ [](idx.pc = "DONE" =>
            /\ Registered
            /\ ~Listed
            /\ idx.ret = [folders_added |-> idx.folders_added,
                          photos_added |-> idx.photos_added, elapsed |-> "elapsed"])
    /\ []((/\ IndexFolderReturned
           /\ Registered
           /\ ScannedImages(fs, idx.path, idx.recursive) # {})
          => Processed)
    /\ (IndexFolderRunning ~> IndexFolderReturned)

\* the tasks of a call that a worker has yet to start or to finish
Unfinished(c) == {i \in Tasks(c) : pool[c].task[i] \in {"queued", "running"}}

\* a _process_images call has returned its count or has raised
PoolReturned(c) == pool[c].pc \in {"returned", "raised"}

\* C22: a call returns only after every task it dispatched has finished: when
\* _process_images has returned or raised, none of its tasks is queued or
\* running (each has ended, has raised or was cancelled before it started),
\* and from then on no task of the call changes state, so none reads or
\* writes the store; also when one of its tasks raised.
C22_WorkersJoined ==
    /\ [](\A c \in DOMAIN pool : PoolReturned(c) => Unfinished(c) = {})
    /\ [][\A c \in DOMAIN pool :
            (PoolReturned(c) /\ PoolReturned(c)') => pool'[c].task = pool[c].task]_vars

\* the existence check of the first task raised while a second worker was
\* processing the second file: the call raised after that worker had inserted
\* its row
C22_Witness ==
    \E c \in DOMAIN pool :
        /\ pool[c].pc = "raised"
        /\ Len(pool[c].task) = 2
        /\ pool[c].task[1] = "raised"
        /\ pool[c].task[2] = "added"
        /\ Len(photos) > Len(pool[c].before)

(***************************************************************************)
(* Properties of find_exact_duplicates under concurrent deletions          *)
(***************************************************************************)
\* the ids that get_photo was asked for while their row was, or was not, in
\* the store
LookedUp(ok) == {dup.calls[n].id : n \in {m \in 1..Len(dup.calls) : dup.calls[m].ok = ok}}

\* the ids of the photos of the returned groups
ReturnedIds == UNION {MemberIds(dup.groups[n]) : n \in 1..Len(dup.groups)}

\* C23: find_exact_duplicates never returns a group with fewer than 2 photos:
\* a hash group of the store in which fewer than 2 ids still resolve at the
\* time of their lookup is left out entirely, and an id that did not resolve
\* is in no returned group.
C23_NoSingletons ==
    dup.pc = "found" =>
        /\ \A n \in 1..Len(dup.groups) : Len(dup.groups[n].photos) >= 2
        /\ ReturnedIds \subseteq LookedUp(TRUE)
        /\ ReturnedIds \cap LookedUp(FALSE) = {}
        /\ \A g \in 1..Len(dup.db_results) :
              LET ids == {int(dup.db_results[g].photo_ids[k]) :
                             k \in 1..Len(dup.db_results[g].photo_ids)}
              IN  Cardinality(ids \cap LookedUp(TRUE)) < 2
                  => \A n \in 1..Len(dup.groups) :
                        dup.groups[n].file_hash # dup.db_results[g].file_hash

\* the store reported two hash groups; a photo of one was deleted before its
\* lookup, so that group shrank to one photo and only the other was returned
C23_Witness ==
    /\ dup.pc = "found"
    /\ Len(dup.db_results) = 2
    /\ Len(dup.groups) = 1
    /\ \E g \in 1..2 :
          Cardinality({int(dup.db_results[g].photo_ids[k]) :
                          k \in 1..Len(dup.db_results[g].photo_ids)}
                      \cap LookedUp(TRUE)) = 1

(***************************************************************************)
(* Properties of the wasted-space statistic                                *)
(***************************************************************************)
\* the photos that come after another photo of their hash group in the order
\* of the store
LaterCopies ==
    {i \in PhotoIds(photos) :
        \E j \in PhotoIds(photos) : j < i /\ photos[j].file_hash = photos[i].file_hash}

\* the size column of a row; NULL counts as 0
SizeColumn(i) == IF "file_size" \in DOMAIN photos[i] THEN photos[i].file_size ELSE 0

RECURSIVE SumOfSizes(_)
SumOfSizes(S) ==
    IF S = {} THEN 0
    ELSE LET i == CHOOSE x \in S : TRUE IN SizeColumn(i) + SumOfSizes(S \ {i})

\* C24: wasted_space_bytes is the sum of file_size over the photos of every
\* group except the first photo of each group in the order of the store,
\* whatever the ranking of suggest_duplicates_to_keep; a photo without
\* file_size adds 0.
C24_WastedSkipsFirst ==
    dup.pc = "statistics" => dup.stats.wasted_space_bytes = SumOfSizes(LaterCopies)

\* a group whose first photo has no size and whose best-ranked photo is a
\* later one with a size: the statistic counts the size of the photo that the
\* ranking would keep
C24_Witness ==
    /\ dup.pc = "statistics"
    /\ dup.stats.wasted_space_bytes > 0
    /\ \E n \in 1..Len(find_exact_duplicates(photos)) :
          LET group == find_exact_duplicates(photos)[n]
              keep_id == keep_id_of(suggest_duplicates_to_keep(group))
          IN  /\ "file_size" \notin DOMAIN group.photos[1]
              /\ keep_id # group.photos[1].id
              /\ SizeColumn(keep_id) > 0

(***************************************************************************)
(* Properties of find_duplicates_in_folder                                 *)
(***************************************************************************)
\* the photos of a folder that have a hash, and those among them that share
\* their hash with another photo of the folder
HashedIn(f) ==
    {i \in PhotoIds(photos) :
        /\ photos[i].folder_id = f
        /\ "file_hash" \in DOMAIN photos[i]
        /\ photos[i].file_hash # << >>}
SharedIn(f) ==
    {i \in HashedIn(f) :
        \E j \in HashedIn(f) : j # i /\ photos[j].file_hash = photos[i].file_hash}

\* C25: find_duplicates_in_folder(f) returns one group per file_hash shared
\* by at least 2 photos of folder f: every group has at least 2 photos, all
\* of folder f and all with the hash of the group; a photo is in at most one
\* group and once; a photo with an empty or missing file_hash and a photo of
\* another folder are in no group; every photo of f that shares its hash
\* with another photo of f is in a group.
C25_FolderGroups ==
    dup.pc = "found_in_folder" =>
        LET f == dup.args.folder_id
            N == 1..Len(dup.groups)
        IN  /\ \A n \in N :
                  /\ Len(dup.groups[n].photos) >= 2
                  /\ Cardinality(MemberIds(dup.groups[n])) = Len(dup.groups[n].photos)
                  /\ MemberIds(dup.groups[n]) \subseteq HashedIn(f)
                  /\ \A i \in MemberIds(dup.groups[n]) :
                        photos[i].file_hash = dup.groups[n].file_hash
            /\ \A n, m \in N :
                  n # m => /\ dup.groups[n].file_hash # dup.groups[m].file_hash
                           /\ MemberIds(dup.groups[n]) \cap MemberIds(dup.groups[m]) = {}
            /\ UNION {MemberIds(dup.groups[n]) : n \in N} = SharedIn(f)

\* the folder holds a pair with one hash and a photo with the empty hash,
\* and the other folder a photo with the hash of the pair: one group of 2 is
\* returned
C25_Witness ==
    /\ dup.pc = "found_in_folder"
    /\ Len(dup.groups) = 1
    /\ Len(dup.groups[1].photos) = 2
    /\ \E i \in PhotoIds(photos) :
          /\ photos[i].folder_id # dup.args.folder_id
          /\ "file_hash" \in DOMAIN photos[i]
          /\ photos[i].file_hash = dup.groups[1].file_hash
    /\ \E i \in PhotoIds(photos) :
          /\ photos[i].folder_id = dup.args.folder_id
          /\ "file_hash" \in DOMAIN photos[i]
          /\ photos[i].file_hash = << >>

(***************************************************************************)
(* Properties of the GPS extraction                                        *)
(***************************************************************************)
\* a rational with a numerator and a denominator that is not zero
GoodRational(r) == Len(r) = 2 /\ r[2] # 0

\* a latitude or longitude of the block lacks its three rational components
\* or has a component with denominator zero
BadCoordinate(gps_info, tag) ==
    /\ tag \in DOMAIN gps_info
    /\ \/ Len(gps_info[tag]) # 3
       \/ \E k \in 1..Len(gps_info[tag]) : ~GoodRational(gps_info[tag][k])

\* C26: _extract_gps_info never raises, and for a GPS block in which a
\* present latitude or longitude is invalid or incomplete it returns the
\* empty record: no latitude, longitude or altitude of that block.
C26_GpsAllOrNothing ==
    (idx.pc = "GPS" /\ (BadCoordinate(idx.gps_info, 2) \/ BadCoordinate(idx.gps_info, 4)))
    => DOMAIN idx.ret = {}

(***************************************************************************)
(* Properties of the tag names                                             *)
(***************************************************************************)
\* a name without a blank at either end, and a name without an uppercase letter
Trimmed(name) == name # << >> => (name[1] # " " /\ name[Len(name)] # " ")
Lowercase(name) == \A i \in 1..Len(name) : name[i] # "A"

\* every stored tag name is trimmed, lowercase and non-empty, and no two tags
\* have the same name
Normal(tg) ==
    /\ \A i \in TagIds(tg) :
          /\ tg[i].name # << >>
          /\ Trimmed(tg[i].name)
          /\ Lowercase(tg[i].name)
    /\ \A i, j \in TagIds(tg) : i # j => tg[i].name # tg[j].name

\* a step of create_tag, update_tag or add_tag_by_name_to_photo: a call that
\* returns at once leaves the threads as they are and its record behind; a
\* call in progress moves its thread
NameCallStep ==
    \/ /\ req' = req
       /\ mgr'.op \in {"create_tag", "update_tag", "add_tag_by_name_to_photo"}
    \/ \E t \in Threads :
          /\ req'[t] # req[t]
          /\ {req[t].pc, req'[t].pc} \cap {"create_tag_add", "create_tag_get",
                                          "tag_by_name_add", "tag_by_name_link"} # {}

\* C27: after any sequence of create_tag, update_tag and
\* add_tag_by_name_to_photo calls every stored tag name is trimmed, lowercase
\* and non-empty, and no two tags have the same name: the store starts
\* without a tag, and each step of these calls leaves the names so when it
\* finds them so, whatever the other thread does between the steps;
\* create_tag with a name whose normal form a tag already has returns that
\* tag and creates none; a name that is empty after trimming creates or
\* renames no tag: the call returns None or False, also when a tag with the
\* empty name is stored.
C27_TagNamesNormal ==
    [][/\ NameCallStep => (Normal(tags) => Normal(tags'))
       /\ (req' = req /\ mgr'.op = "create_tag" /\ ~mgr'.blank /\ mgr'.named # << >>)
             => /\ tags' = tags
                /\ mgr'.ret = mgr'.named
                /\ mgr'.named[1] = tags'[mgr'.named[1].id]
       /\ (/\ req' = req
           /\ mgr'.op \in {"create_tag", "update_tag", "add_tag_by_name_to_photo"}
           /\ mgr'.blank)
             => /\ tags' = tags
                /\ mgr'.ret = IF mgr'.op = "create_tag" THEN << >> ELSE <<FALSE>>]_vars

\* two tags are stored, and create_tag has returned the first of them and
\* created none
C27_Witness ==
    /\ mgr.op = "create_tag"
    /\ ~mgr.changed
    /\ mgr.named # << >>
    /\ Len(tags) = 2
    /\ mgr.ret = <<tags[1]>>
    /\ tags[1].name = <<"a">>
    /\ tags[2].name = <<"a", "a">>
    /\ <<1, 1>> \in photo_tags

(***************************************************************************)
(* Properties of the ratings                                               *)
(***************************************************************************)
\* the rating 0-5 nearest to the one given
Nearest(rating) == IF rating < 0 THEN 0 ELSE IF rating > 5 THEN 5 ELSE rating

\* thread t makes the store call that writes a rating for a photo that
\* exists: a pass of the loop of set_photos_rating, or the update of a PATCH
\* request with a rating
RatingWrite(t) ==
    /\ req'[t] # req[t]
    /\ \/ /\ req[t].pc = "set_photos_rating"
          /\ req[t].photo_ids[req[t].k] \in PhotoIds(photos)
       \/ /\ req[t].pc = "update_photo"
          /\ req[t].updates.rating # << >>
          /\ req[t].photo_id \in PhotoIds(photos)

\* the rating that the call of thread t was given, and the photo of its
\* store call
RatingGiven(t) ==
    IF req[t].pc = "set_photos_rating" THEN req[t].given ELSE req[t].updates.rating[1]
RatedPhoto(t) ==
    IF req[t].pc = "set_photos_rating" THEN req[t].photo_ids[req[t].k] ELSE req[t].photo_id

\* the store call of thread t was not rejected: set_photos_rating has counted
\* the photo, the endpoint goes on to read the photo it updated
Accepted(t) ==
    IF req[t].pc = "set_photos_rating"
    THEN (IF req'[t].pc = "idle" THEN mgr'.ret ELSE req'[t].count) = req[t].count + 1
    ELSE req'[t].pc = "updated_photo"

\* C28: after any sequence of rating updates (set_photo_rating,
\* set_photos_rating, the API's update_photo) every stored rating is within
\* 0..5: a rating below 0 is stored as 0 and one above 5 as 5, and the request
\* is not rejected. Every store call of these updates for a photo that exists
\* is accepted and leaves the rating 0-5 nearest to the one given.
C28_RatingsClamped ==
    /\ [](\A i \in PhotoIds(photos) : photos[i].rating[1] \in 0..5)
    /\ [][/\ (/\ req' = req
              /\ mgr'.op = "set_photo_rating"
              /\ mgr'.photo_ids[1] \in PhotoIds(photos))
                => /\ mgr'.ret = TRUE
                   /\ photos'[mgr'.photo_ids[1]].rating = <<Nearest(mgr'.rating[1])>>
          /\ \A t \in Threads :
                RatingWrite(t)
                => /\ Accepted(t)
                   /\ photos'[RatedPhoto(t)].rating = <<Nearest(RatingGiven(t))>>]_vars

(***************************************************************************)
(* Properties of the counts                                                *)
(***************************************************************************)
\* C29: the counts index_folder returns are what the call changed in the
\* store: photos_added is the number of Photo rows it inserted and
\* folders_added the number of Folder rows it created, in every outcome, the
\* failure return (0, 0, 0.0) included: a call that reports zero has added no
\* row.
C29_CountsMatchStore ==
    IndexFolderReturned
    => /\ idx.ret.photos_added = Len(photos) - Len(idx.before)
       /\ idx.ret.folders_added = Len(folders) - Len(idx.folders_before)

====
